---- MODULE Spec2Model ----
(***************************************************************************)
(* Spot-exposure hedging bot: the risk calculator (risk.py), the position  *)
(* ledger (portfolio_analytics.py), the multi-venue price client           *)
(* (multi_exchange_client.py), the strategies (strategies.py) and the      *)
(* /auto_hedge command handler (bot.py).                                   *)
(*                                                                         *)
(* Numbers.  The program computes with Python floats; the model computes   *)
(* with exact integers.  Prices are whole units.  A quantity handed to a   *)
(* strategy is in tenths of a unit (QtyUnit), so that 1.3 is 13.  A value  *)
(* that the code obtains by dividing by 100 (threshold_limit) is kept in   *)
(* hundredths, and a value obtained from the normal distribution (the      *)
(* option Greeks) is kept in millionths, read from a table.  A logarithm   *)
(* of a price series is kept in units of ln 2 over prices that are powers  *)
(* of two.                                                                 *)
(***************************************************************************)
EXTENDS Integers, Sequences, FiniteSets, TLC

VARIABLES
    rc,           \* the RiskCalculator under evaluation: spot, perp, threshold_percent
    rcOut,        \* what each of its methods returned ({} = not called yet)
    venueTicker,  \* what each venue answers to the ticker query of the call
    venueHistory, \* what each venue answers to the price-history query of the call
    clientOut,    \* what each MultiExchangeClient method returned ({} = not called yet)
    positions,    \* PortfolioAnalytics.positions: the ledger, a list of legs
    lastCall,     \* the last PortfolioAnalytics call: its arguments and what it returned
    now,          \* the clock _now() reads, in days
    scan,         \* an aggregate computation whose loop over the ledger is under way
    portfolio,    \* bot.py: the shared portfolio settings
    hedge_log,    \* bot.py: per asset, the hedge-result records of the accepted hedges
    reply,        \* the last command: its handler, how it ended, the ledger size before it
    seriesCall,   \* the last call of a price-series method of RiskCalculator, and its result
    strategyCall  \* the last direct call of a strategy or of its helpers, and its result

riskVars == <<rc, rcOut>>
clientVars == <<venueTicker, venueHistory, clientOut>>
ledgerVars == <<positions, lastCall, now, scan>>
botVars == <<portfolio, hedge_log, reply>>
callVars == <<seriesCall, strategyCall>>
vars == <<rc, rcOut, venueTicker, venueHistory, clientOut, positions, lastCall, now, scan,
          portfolio, hedge_log, reply, seriesCall, strategyCall>>

Abs(x) == IF x < 0 THEN -x ELSE x

(***************************************************************************)
(* risk.py: RiskCalculator                                                 *)
(***************************************************************************)
SpotSizes == {-100, 0, 100}
PerpSizes == {-110, -100, -90, 80, 91}
Thresholds == {0, 10}

RiskCalculator(spot_size, perp_size, threshold) ==
    [spot |-> spot_size, perp |-> perp_size, threshold_percent |-> threshold]

net_delta(self) == self.spot + self.perp

\* abs(spot) * (threshold_percent / 100), in hundredths of a unit
threshold_limit(self) == Abs(self.spot) * self.threshold_percent

needs_hedge_ge(self) == Abs(net_delta(self)) * 100 >= threshold_limit(self)

\* abs(net_delta()) > threshold_limit(), both sides in hundredths
needs_hedge(self) == Abs(net_delta(self)) * 100 > threshold_limit(self)

hedge_amount(self) == net_delta(self)

NoRiskOut == [net_delta |-> {}, threshold_limit |-> {}, needs_hedge |-> {}, hedge_amount |-> {}]

RiskInit ==
    /\ rc \in { RiskCalculator(s, p, t) : s \in SpotSizes, p \in PerpSizes, t \in Thresholds }
    /\ rcOut = NoRiskOut

CallNetDelta ==
    /\ rcOut' = [rcOut EXCEPT !.net_delta = {net_delta(rc)}]
    /\ UNCHANGED <<rc, clientVars, ledgerVars, botVars, callVars>>

CallThresholdLimit ==
    /\ rcOut' = [rcOut EXCEPT !.threshold_limit = {threshold_limit(rc)}]
    /\ UNCHANGED <<rc, clientVars, ledgerVars, botVars, callVars>>

CallNeedsHedge ==
    /\ rcOut' = [rcOut EXCEPT !.needs_hedge = {needs_hedge(rc)}]
    /\ UNCHANGED <<rc, clientVars, ledgerVars, botVars, callVars>>

CallHedgeAmount ==
    /\ rcOut' = [rcOut EXCEPT !.hedge_amount = {hedge_amount(rc)}]
    /\ UNCHANGED <<rc, clientVars, ledgerVars, botVars, callVars>>

(***************************************************************************)
(* multi_exchange_client.py: MultiExchangeClient                           *)
(*                                                                         *)
(* A venue's answer to one query is the outcome of the body of the try     *)
(* block around it: ok = FALSE when anything in it raised (transport       *)
(* error, no "result", a missing key), else the value it produced.         *)
(***************************************************************************)
exchange_priority == <<"deribit", "okx", "bybit">>
Venues == {"deribit", "okx", "bybit"}

VenuePrices == {-1, 0, 1, 2}
Failed == [ok |-> FALSE, price |-> 0]
TickerAnswers == {Failed} \cup {[ok |-> TRUE, price |-> p] : p \in VenuePrices}

NoSeries == [ok |-> FALSE, close |-> <<>>]
HistoryAnswers == {NoSeries} \cup {[ok |-> TRUE, close |-> c] : c \in {<<>>, <<1, 2>>}}

\* Optional[float]: {} is None, {p} is the float p
get_ticker_from_exchange(answers, exchange) ==
    IF answers[exchange].ok THEN {answers[exchange].price} ELSE {}

\* "if price and price > 0": None and 0 are falsy
Truthy(price) == price # {} /\ price # {0}
PositivePrice(price) == Truthy(price) /\ \A p \in price : p > 0
Value(price) == CHOOSE p \in price : TRUE

\* the dict the loop over `order` builds, as the sequence of its items in insertion order
RECURSIVE CollectPrices(_, _, _)
CollectPrices(answers, order, prices) ==
    IF order = <<>> THEN prices
    ELSE LET exchange == Head(order)
             price == get_ticker_from_exchange(answers, exchange)
         IN  CollectPrices(answers, Tail(order),
                 IF PositivePrice(price)
                 THEN Append(prices, [exchange |-> exchange, price |-> Value(price)])
                 ELSE prices)

Raised == [raised |-> TRUE, price |-> 0, exchange |-> ""]
Returned(price, exchange) == [raised |-> FALSE, price |-> price, exchange |-> exchange]

get_best_price_last(answers) ==
    LET prices == CollectPrices(answers, exchange_priority, <<>>)
    IN  IF prices = <<>> THEN Raised
        ELSE Returned(prices[Len(prices)].price, prices[Len(prices)].exchange)

get_best_price(answers) ==
    LET prices == CollectPrices(answers, exchange_priority, <<>>)
    IN  IF prices = <<>> THEN Raised
        ELSE Returned(Head(prices).price, Head(prices).exchange)

get_all_exchange_prices_stop(answers) ==
    IF answers["deribit"].ok
    THEN CollectPrices(answers, <<"deribit", "okx", "bybit">>, <<>>)
    ELSE <<>>

get_all_exchange_prices(answers) ==
    CollectPrices(answers, <<"deribit", "okx", "bybit">>, <<>>)

get_historical_prices(history, exchange) ==
    IF exchange = "deribit" /\ history["deribit"].ok THEN history["deribit"].close
    ELSE IF exchange = "okx" /\ history["okx"].ok THEN history["okx"].close
    ELSE IF exchange = "bybit" /\ history["bybit"].ok THEN history["bybit"].close
    ELSE <<>>

NoClientOut == [best |-> {}, all |-> {}, history |-> {}]

ClientInit ==
    /\ venueTicker \in [Venues -> TickerAnswers]
    /\ venueHistory \in [Venues -> HistoryAnswers]
    /\ clientOut = NoClientOut

CallGetBestPrice ==
    /\ clientOut' = [clientOut EXCEPT !.best = {get_best_price(venueTicker)}]
    /\ UNCHANGED <<venueTicker, venueHistory, riskVars, ledgerVars, botVars, callVars>>

CallGetAllExchangePrices ==
    /\ clientOut' = [clientOut EXCEPT !.all = {get_all_exchange_prices(venueTicker)}]
    /\ UNCHANGED <<venueTicker, venueHistory, riskVars, ledgerVars, botVars, callVars>>

\* get_historical_prices(asset, days): the exchange argument keeps its default
CallGetHistoricalPrices ==
    /\ clientOut' = [clientOut EXCEPT !.history = {get_historical_prices(venueHistory, "deribit")}]
    /\ UNCHANGED <<venueTicker, venueHistory, riskVars, ledgerVars, botVars, callVars>>

(***************************************************************************)
(* multi_exchange_client.py: prices and option instruments                 *)
(***************************************************************************)
get_spot_price(answers) == get_best_price(answers)

get_perpetual_price(answers) == get_best_price(answers)

\* get_ticker(instrument_name) of an option instrument: only deribit is asked, and a
\* failed query is answered with 0.0
get_ticker(answers) == IF answers["deribit"].ok THEN answers["deribit"].price ELSE 0

\* An instrument name is the sequence of its parts between dashes.  The catalog is the
\* list get_instruments returns: [] when the query failed.
PutNear == [instrument_name |-> <<"BTC", "D365", "1", "P">>, option_type |-> "put",
            strike |-> 1, expiration_timestamp |-> 365]
PutFar == [instrument_name |-> <<"BTC", "D730", "1", "P">>, option_type |-> "put",
           strike |-> 1, expiration_timestamp |-> 730]
CallNear == [instrument_name |-> <<"BTC", "D365", "1", "C">>, option_type |-> "call",
             strike |-> 1, expiration_timestamp |-> 365]
CallHigh == [instrument_name |-> <<"BTC", "D365", "2", "C">>, option_type |-> "call",
             strike |-> 2, expiration_timestamp |-> 365]

NoCatalog == [ok |-> FALSE, result |-> <<>>]
FullCatalog == [ok |-> TRUE, result |-> <<PutFar, PutNear, CallNear, CallHigh>>]
PutsOnly == [ok |-> TRUE, result |-> <<PutFar, PutNear>>]
CatalogAnswers == {NoCatalog, FullCatalog, PutsOnly}

get_instruments(catalog) == IF catalog.ok THEN catalog.result ELSE <<>>

MinByExpiry_first(candidates, target_ts, best) == best

\* min(candidates, key = |expiration_timestamp - target_ts|): the first of the nearest
RECURSIVE MinByExpiry(_, _, _)
MinByExpiry(candidates, target_ts, best) ==
    IF candidates = <<>> THEN best
    ELSE MinByExpiry(Tail(candidates), target_ts,
             IF Abs(Head(candidates).expiration_timestamp - target_ts)
                    < Abs(best.expiration_timestamp - target_ts)
             THEN Head(candidates) ELSE best)

NotFound == [raised |-> TRUE, instrument_name |-> <<>>]

\* days in calendar days; timestamps in days
find_option_instrument(catalog, today, strike, days, option_type) ==
    LET instruments == get_instruments(catalog)
        target_ts == today + days
        candidates == SelectSeq(instruments,
                          LAMBDA inst : inst.option_type = option_type /\ inst.strike = strike)
    IN  IF candidates = <<>> THEN NotFound
        ELSE [raised |-> FALSE,
              instrument_name |->
                  MinByExpiry(Tail(candidates), target_ts, Head(candidates)).instrument_name]

(***************************************************************************)
(* greeks.py: GreeksCalculator, in millionths.  math.log, math.sqrt and    *)
(* the normal distribution are tables over the values the model's inputs   *)
(* produce; a Python exception (ZeroDivisionError, ValueError) is err.     *)
(***************************************************************************)
DaysPerYear == 365

GreekErr == [err |-> TRUE, val |-> 0]
Greek(v) == [err |-> FALSE, val |-> v]

\* a year fraction days / 365
YearFraction(days) == [num |-> days, den |-> DaysPerYear]

\* math.log(S / K) for S / K in {1/2, 1, 2, 4096}
Log(S, K) ==
    IF Abs(S) = Abs(K) THEN 0
    ELSE IF Abs(S) = 2 * Abs(K) THEN 693147
    ELSE IF Abs(S) = 4096 * Abs(K) THEN 8317766
    ELSE -693147

\* math.sqrt(T) for T in {0, 1}
Sqrt(T) == IF T.num = 0 THEN 0 ELSE 1

\* norm.cdf(d1); norm.cdf(8.817766) is exactly 1.0 in double precision
NormCdf(d1) ==
    CASE d1 = 500000 -> 691462
      [] d1 = 8817766 -> 1000000
      [] d1 = -8817766 -> 0
      [] d1 = 1193147 -> 883594
      [] d1 = -193147 -> 423422
      [] d1 = -500000 -> 308538
      [] d1 = -1193147 -> 116406
      [] d1 = 193147 -> 576578

\* norm.pdf(d1)
NormPdf(d1) ==
    CASE Abs(d1) = 500000 -> 352065
      [] Abs(d1) = 8817766 -> 0
      [] Abs(d1) = 1193147 -> 195785
      [] Abs(d1) = 193147 -> 391570

\* (math.log(S/K) + (r + 0.5*sigma*sigma)*T) / (sigma*math.sqrt(T)), T in {0, 1}
d1(S, K, T, r, sigma) ==
    IF K = 0 THEN GreekErr                       \* S/K: ZeroDivisionError
    ELSE IF S * K <= 0 THEN GreekErr             \* math.log: ValueError
    ELSE IF T.num < 0 THEN GreekErr              \* math.sqrt: ValueError
    ELSE IF sigma * Sqrt(T) = 0 THEN GreekErr    \* ZeroDivisionError
    ELSE Greek((Log(S, K) + ((2 * r + sigma * sigma) * 500000 * T.num) \div T.den)
                   \div (sigma * Sqrt(T)))

delta(S, K, T, r, sigma, otype) ==
    LET x == d1(S, K, T, r, sigma)
    IN  IF x.err THEN GreekErr
        ELSE IF otype = "call" THEN Greek(NormCdf(x.val))
        ELSE Greek(NormCdf(x.val) - 1000000)

gamma(S, K, T, r, sigma) ==
    LET x == d1(S, K, T, r, sigma)
    IN  IF x.err THEN GreekErr
        ELSE Greek(NormPdf(x.val) \div (S * sigma * Sqrt(T)))

\* with r = 0 the r * K * exp(-r*T) * cdf term is 0 for both kinds
theta(S, K, T, r, sigma, otype) ==
    LET x == d1(S, K, T, r, sigma)
    IN  IF x.err THEN GreekErr
        ELSE Greek(((-S * NormPdf(x.val) * sigma) \div (2 * Sqrt(T))) \div DaysPerYear)

vega(S, K, T, r, sigma) ==
    LET x == d1(S, K, T, r, sigma)
    IN  IF x.err THEN GreekErr
        ELSE Greek((S * NormPdf(x.val) * Sqrt(T)) \div 100)

(***************************************************************************)
(* portfolio_analytics.py: PortfolioAnalytics                              *)
(***************************************************************************)
Side_positive_only(size) == IF size > 0 THEN 1 ELSE -1

\* 1 if size >= 0 else -1
Side(size) == IF size >= 0 THEN 1 ELSE -1

add_spot(legs, asset, size, entry_price, timestamp) ==
    Append(legs, [type |-> "spot", side |-> Side(size), size |-> Abs(size),
                  instrument |-> <<asset, "SPOT">>, entry_price |-> entry_price,
                  timestamp |-> timestamp])

add_perp_netting(legs, asset, size, entry_price, timestamp) ==
    IF legs # <<>> /\ legs[Len(legs)].type = "perp"
    THEN LET net == legs[Len(legs)].side * legs[Len(legs)].size + size
         IN  [legs EXCEPT ![Len(legs)].side = Side(net), ![Len(legs)].size = Abs(net)]
    ELSE Append(legs, [type |-> "perp", side |-> Side(size), size |-> Abs(size),
                       instrument |-> <<asset, "PERPETUAL">>, entry_price |-> entry_price,
                       timestamp |-> timestamp])

add_perp(legs, asset, size, entry_price, timestamp) ==
    Append(legs, [type |-> "perp", side |-> Side(size), size |-> Abs(size),
                  instrument |-> <<asset, "PERPETUAL">>, entry_price |-> entry_price,
                  timestamp |-> timestamp])

add_option_lookup_last(legs, catalog, asset, option_type, strike, days, volatility, size, entry_price, timestamp) ==
    LET T == YearFraction(days)
        inst == find_option_instrument(catalog, timestamp, strike, days, option_type)
        leg == [type |-> "option", side |-> Side(size), size |-> Abs(size),
                instrument |-> IF inst.raised THEN <<>> ELSE inst.instrument_name,
                strike |-> strike, time_to_expiry |-> T, volatility |-> volatility,
                option_type |-> option_type, entry_price |-> entry_price,
                timestamp |-> timestamp]
    IN  [raised |-> inst.raised, positions |-> Append(legs, leg)]

\* the ledger after the call, and whether find_option_instrument raised
add_option(legs, catalog, asset, option_type, strike, days, volatility, size, entry_price, timestamp) ==
    LET T == YearFraction(days)
        inst == find_option_instrument(catalog, timestamp, strike, days, option_type)
    IN  IF inst.raised THEN [raised |-> TRUE, positions |-> legs]
        ELSE [raised |-> FALSE,
              positions |->
                  Append(legs, [type |-> "option", side |-> Side(size), size |-> Abs(size),
                                instrument |-> inst.instrument_name, strike |-> strike,
                                time_to_expiry |-> T, volatility |-> volatility,
                                option_type |-> option_type, entry_price |-> entry_price,
                                timestamp |-> timestamp])]

UnitDelta_unsigned(pos) == pos.size * 1000000

\* totals["delta"] += side * size, in millionths
UnitDelta(pos) == pos.side * pos.size * 1000000

TimeToExpiry_remaining(pos) ==
    [num |-> pos.time_to_expiry.num - (now - pos.timestamp), den |-> DaysPerYear]

\* T = pos["time_to_expiry"]: the year fraction stored when the leg was added
TimeToExpiry(pos) == pos.time_to_expiry

GreeksRaised == [raised |-> TRUE, delta |-> 0, gamma |-> 0, theta |-> 0, vega |-> 0]

\* the loop of compute_portfolio_greeks from leg i on; markets[i] is what the venues
\* answer while leg i is handled; totals are in millionths
RECURSIVE GreeksLoop(_, _, _, _)
GreeksLoop(legs, markets, i, totals) ==
    IF i > Len(legs) THEN totals
    ELSE LET pos == legs[i]
         IN  IF pos.type \in {"spot", "perp"}
             THEN GreeksLoop(legs, markets, i + 1,
                      [totals EXCEPT !.delta = @ + UnitDelta(pos)])
             ELSE LET S == get_spot_price(markets[i])
                      K == pos.strike
                      T == TimeToExpiry(pos)
                      vol == pos.volatility
                      d == delta(S.price, K, T, 0, vol, pos.option_type)
                      g == gamma(S.price, K, T, 0, vol)
                      th == theta(S.price, K, T, 0, vol, pos.option_type)
                      v == vega(S.price, K, T, 0, vol)
                  IN  IF S.raised \/ d.err \/ g.err \/ th.err \/ v.err THEN GreeksRaised
                      ELSE GreeksLoop(legs, markets, i + 1,
                               [raised |-> FALSE,
                                delta |-> totals.delta + pos.side * pos.size * d.val,
                                gamma |-> totals.gamma + pos.side * pos.size * g.val,
                                theta |-> totals.theta + pos.side * pos.size * th.val,
                                vega |-> totals.vega + pos.side * pos.size * v.val])

compute_portfolio_greeks(legs, markets) ==
    GreeksLoop(legs, markets, 1,
               [raised |-> FALSE, delta |-> 0, gamma |-> 0, theta |-> 0, vega |-> 0])

PnlRaised == [raised |-> TRUE, total_pnl |-> 0, legs |-> <<>>, timestamp |-> 0]

CurrentPrice_ticker(pos, answers) == Returned(get_ticker(answers), "deribit")

\* the mark of one leg: spot price, perpetual price or the option's last price
CurrentPrice(pos, answers) ==
    IF pos.type = "spot" THEN get_spot_price(answers)
    ELSE IF pos.type = "perp" THEN get_perpetual_price(answers)
    ELSE Returned(get_ticker(answers), "deribit")

RECURSIVE PnlLoop(_, _, _, _, _)
PnlLoop(legs, markets, i, acc, timestamp) ==
    IF i > Len(legs) THEN [acc EXCEPT !.timestamp = timestamp]
    ELSE LET pos == legs[i]
             current == CurrentPrice(pos, markets[i])
             pnl == pos.side * pos.size * (current.price - pos.entry_price)
         IN  IF current.raised THEN PnlRaised
             ELSE PnlLoop(legs, markets, i + 1,
                      [raised |-> FALSE,
                       total_pnl |-> acc.total_pnl + pnl,
                       legs |-> Append(acc.legs,
                                    [instrument |-> pos.instrument,
                                     size |-> pos.size * pos.side,
                                     entry |-> pos.entry_price,
                                     current |-> current.price,
                                     pnl |-> pnl]),
                       timestamp |-> 0],
                      timestamp)

compute_pnl_attribution(legs, markets, timestamp) ==
    PnlLoop(legs, markets, 1,
            [raised |-> FALSE, total_pnl |-> 0, legs |-> <<>>, timestamp |-> 0], timestamp)

(***************************************************************************)
(* Calls of the PortfolioAnalytics operations                              *)
(***************************************************************************)
MaxLegs == 3

Assets == {"BTC"}
SignedSizes == {-1, 0, 1}
HedgeSizes == {-1, 1}
EntryPrices == {1}
OptionTypes == {"put", "call"}
Strikes == {1}
Expiries == {DaysPerYear}
Volatilities == {1}

AllFail == [v \in Venues |-> Failed]
DeribitOne == [v \in Venues |-> IF v = "deribit" THEN [ok |-> TRUE, price |-> 1] ELSE Failed]
OkxTwo == [v \in Venues |->
              IF v = "deribit" THEN Failed
              ELSE IF v = "okx" THEN [ok |-> TRUE, price |-> 2]
              ELSE [ok |-> TRUE, price |-> 1]]
DeribitTwo == [v \in Venues |-> IF v = "deribit" THEN [ok |-> TRUE, price |-> 2] ELSE Failed]
Markets == {AllFail, DeribitOne, OkxTwo, DeribitTwo}

Call(op, size, raised, markets, greeks, pnl) ==
    [op |-> op, size |-> size, raised |-> raised, markets |-> markets,
     greeks |-> greeks, pnl |-> pnl]

NoCall == Call("none", 0, FALSE, <<>>, {}, {})

\* no aggregate computation is under way
NoScan == [op |-> "idle", i |-> 0, start |-> <<>>, market |-> AllFail, acc |-> <<>>, done |-> FALSE]

LedgerInit ==
    /\ positions = <<>>
    /\ lastCall = NoCall
    /\ now = 0
    /\ scan = NoScan

AddSpot ==
    \E asset \in Assets, size \in SignedSizes, entry_price \in EntryPrices :
        /\ Len(positions) < MaxLegs
        /\ positions' = add_spot(positions, asset, size, entry_price, now)
        /\ lastCall' = Call("add_spot", size, FALSE, <<>>, {}, {})
        /\ UNCHANGED <<now, scan, riskVars, clientVars, botVars, callVars>>

AddPerp ==
    \E asset \in Assets, size \in HedgeSizes, entry_price \in EntryPrices :
        /\ Len(positions) < MaxLegs
        /\ positions' = add_perp(positions, asset, size, entry_price, now)
        /\ lastCall' = Call("add_perp", size, FALSE, <<>>, {}, {})
        /\ UNCHANGED <<now, scan, riskVars, clientVars, botVars, callVars>>

AddOption ==
    \E asset \in Assets, option_type \in OptionTypes, strike \in Strikes, days \in Expiries,
       volatility \in Volatilities, size \in HedgeSizes, entry_price \in EntryPrices,
       catalog \in CatalogAnswers :
        LET r == add_option(positions, catalog, asset, option_type, strike, days,
                            volatility, size, entry_price, now)
        IN  /\ Len(positions) < MaxLegs
            /\ positions' = r.positions
            /\ lastCall' = [op |-> "add_option", size |-> size, raised |-> r.raised,
                             markets |-> <<>>, greeks |-> {}, pnl |-> {}, days |-> days]
            /\ UNCHANGED <<now, scan, riskVars, clientVars, botVars, callVars>>

\* the venues answer alike for every leg of one call
ComputePortfolioGreeks ==
    \E market \in Markets :
      LET markets == [i \in 1..Len(positions) |-> market]
      IN
        /\ lastCall' = [op |-> "compute_portfolio_greeks", size |-> 0, raised |-> FALSE,
                         markets |-> markets,
                         greeks |-> {compute_portfolio_greeks(positions, markets)},
                         pnl |-> {}, at |-> now]
        /\ UNCHANGED <<positions, now, scan, riskVars, clientVars, botVars, callVars>>

ComputePnlAttribution ==
    \E market \in Markets :
      LET markets == [i \in 1..Len(positions) |-> market]
      IN
        /\ lastCall' = Call("compute_pnl_attribution", 0, FALSE, markets, {},
                            {compute_pnl_attribution(positions, markets, now)})
        /\ UNCHANGED <<positions, now, scan, riskVars, clientVars, botVars, callVars>>

\* the clock _now() reads, in days; it advances a year at a time
MaxClock == 2

Tick ==
    /\ now < MaxClock * DaysPerYear
    /\ now' = now + DaysPerYear
    /\ UNCHANGED <<positions, lastCall, scan, riskVars, clientVars, botVars, callVars>>

\* the ledger after one more leg was added at time 0
Booked(legs, kind) ==
    CASE kind = "spot" -> add_spot(legs, "BTC", 1, 1, 0)
      [] kind = "perp" -> add_perp(legs, "BTC", -1, 1, 0)
      [] kind = "put" -> add_option(legs, FullCatalog, "BTC", "put", 1, DaysPerYear, 1, 1, 1, 0).positions
      [] kind = "call" -> add_option(legs, FullCatalog, "BTC", "call", 1, DaysPerYear, 1, -1, 1, 0).positions

LegKinds == {"spot", "perp", "put", "call"}

\* the ledgers of at most two legs
BookedLedgers ==
    {<<>>} \cup {Booked(<<>>, k) : k \in LegKinds}
           \cup {Booked(Booked(<<>>, j), k) : j \in LegKinds, k \in LegKinds}

ClockInit ==
    /\ positions \in BookedLedgers
    /\ lastCall = NoCall
    /\ now = 0
    /\ scan = NoScan

(***************************************************************************)
(* The aggregate computations one leg at a time: "for pos in               *)
(* self.positions" walks the list itself, looking at its current length    *)
(* before every leg, and asks a venue inside the loop; other callers'      *)
(* add_spot, add_perp and add_option can run between two legs.             *)
(***************************************************************************)
\* what the venues answer throughout one computation
ScanMarkets == {AllFail, OkxTwo}

\* a behaviour holds one aggregate computation
BeginPortfolioGreeks ==
    /\ scan = NoScan
    /\ \E market \in ScanMarkets :
           scan' = [op |-> "compute_portfolio_greeks", i |-> 1, start |-> positions,
                    market |-> market,
                    acc |-> [raised |-> FALSE, delta |-> 0, gamma |-> 0, theta |-> 0,
                             vega |-> 0],
                    done |-> FALSE]
    /\ UNCHANGED <<positions, lastCall, now, riskVars, clientVars, botVars, callVars>>

\* the next leg of the list as it is now, or the return when the list is exhausted
StepPortfolioGreeks ==
    /\ scan.op = "compute_portfolio_greeks"
    /\ ~scan.done
    /\ IF scan.i > Len(positions) THEN scan' = [scan EXCEPT !.done = TRUE]
       ELSE LET acc == GreeksLoop(SubSeq(positions, 1, scan.i),
                                  [k \in 1..scan.i |-> scan.market], scan.i, scan.acc)
            IN  scan' = [scan EXCEPT !.acc = acc, !.i = @ + 1, !.done = acc.raised]
    /\ UNCHANGED <<positions, lastCall, now, riskVars, clientVars, botVars, callVars>>

BeginPnlAttribution ==
    /\ scan = NoScan
    /\ \E market \in ScanMarkets :
           scan' = [op |-> "compute_pnl_attribution", i |-> 1, start |-> positions,
                    market |-> market,
                    acc |-> [raised |-> FALSE, total_pnl |-> 0, legs |-> <<>>,
                             timestamp |-> 0],
                    done |-> FALSE]
    /\ UNCHANGED <<positions, lastCall, now, riskVars, clientVars, botVars, callVars>>

StepPnlAttribution ==
    /\ scan.op = "compute_pnl_attribution"
    /\ ~scan.done
    /\ IF scan.i > Len(positions)
       THEN scan' = [scan EXCEPT !.acc.timestamp = now, !.done = TRUE]
       ELSE LET acc == PnlLoop(SubSeq(positions, 1, scan.i),
                               [k \in 1..scan.i |-> scan.market], scan.i, scan.acc, 0)
            IN  scan' = [scan EXCEPT !.acc = acc, !.i = @ + 1, !.done = acc.raised]
    /\ UNCHANGED <<positions, lastCall, now, riskVars, clientVars, botVars, callVars>>

(***************************************************************************)
(* options_hedger.py and strategies.py.  Each strategy gets the answers    *)
(* the venues give to its queries and returns its record, or raises.       *)
(***************************************************************************)
OptionsHedger(S, strike, T, r, sigma, spot_qty) ==
    [S |-> S, K |-> strike, T |-> T, r |-> r, sigma |-> sigma, spot_qty |-> spot_qty]

\* abs(delta of the put), in millionths
put_delta(self) ==
    LET d == delta(self.S, self.K, self.T, self.r, self.sigma, "put")
    IN  IF d.err THEN GreekErr ELSE Greek(Abs(d.val))

\* quantities are in tenths of a unit
QtyUnit == 10

\* math.ceil(a / b) for b > 0
Ceil(a, b) == -((-a) \div b)

hedge_qty_floor(self) ==
    LET d_put == put_delta(self)
    IN  IF d_put.err \/ d_put.val = 0 THEN GreekErr
        ELSE Greek(((self.spot_qty * 1000000) \div (d_put.val * QtyUnit)) * QtyUnit)

\* ceil(spot_qty / d_put), a whole number of contracts.  With d_put zero the division
\* or the ceil of its infinite quotient is an error
hedge_qty(self) ==
    LET d_put == put_delta(self)
    IN  IF d_put.err \/ d_put.val = 0 THEN GreekErr
        ELSE Greek(Ceil(self.spot_qty * 1000000, d_put.val * QtyUnit) * QtyUnit)

StrategyRaised == [raised |-> TRUE, res |-> [strategy |-> "none"]]
StrategyResult(res) == [raised |-> FALSE, res |-> res]

\* bot.py _get_client_for_exchange and the get_spot_price / get_perpetual_price of
\* MultiExchangeClient, DeribitClient, OKXClient and BybitClient
client_get_price(client, answers) ==
    LET price == get_ticker_from_exchange(answers, client)
    IN  IF client \notin Venues THEN get_best_price(answers)
        ELSE IF Truthy(price) THEN Returned(Value(price), client)
        ELSE IF client = "deribit" THEN get_best_price(answers)
        ELSE Raised

\* the record hedge_protective_put returns, from the values its body computed
ProtectivePutRecord(inst, qty, price, d, g, th, v, today) ==
    IF qty.err \/ d.err \/ g.err \/ th.err \/ v.err THEN StrategyRaised
    ELSE StrategyResult(
             [strategy |-> "protective_put", instrument |-> inst.instrument_name,
              size |-> qty.val, cost |-> qty.val * price,
              delta |-> d.val, gamma |-> g.val, theta |-> th.val,
              vega |-> v.val, timestamp |-> today])

\* hedge_protective_put once S and the instrument are known
ProtectivePutAt(S, inst, spot_qty, strike, T, vol, price, today) ==
    IF S.raised \/ inst.raised THEN StrategyRaised
    ELSE ProtectivePutRecord(inst,
             hedge_qty(OptionsHedger(S.price, strike, T, 0, vol, spot_qty)), price,
             put_delta(OptionsHedger(S.price, strike, T, 0, vol, spot_qty)),
             gamma(S.price, strike, T, 0, vol), theta(S.price, strike, T, 0, vol, "put"),
             vega(S.price, strike, T, 0, vol), today)

hedge_protective_put(asset, spot_qty, strike, days, vol, client, spotAnswers, catalog, tickAnswers, today) ==
    ProtectivePutAt(client_get_price(client, spotAnswers),
                    find_option_instrument(catalog, today, strike, days, "put"),
                    spot_qty, strike, YearFraction(days), vol, get_ticker(tickAnswers), today)

covered_call_floor(asset, spot_qty, strike, days, vol, client, spotAnswers, catalog, tickAnswers, today) ==
    LET S == client_get_price(client, spotAnswers)
        inst == find_option_instrument(catalog, today, strike, days, "call")
        qty == (spot_qty \div QtyUnit) * QtyUnit
        price == get_ticker(tickAnswers)
    IN  IF S.raised \/ inst.raised THEN StrategyRaised
        ELSE StrategyResult(
                 [strategy |-> "covered_call", instrument |-> inst.instrument_name,
                  size |-> -qty, cost |-> -qty * price, timestamp |-> today])

\* qty = ceil(spot_qty) whole contracts; "get_ticker(inst) or 0.0" is get_ticker(inst)
covered_call(asset, spot_qty, strike, days, vol, client, spotAnswers, catalog, tickAnswers, today) ==
    LET S == client_get_price(client, spotAnswers)
        inst == find_option_instrument(catalog, today, strike, days, "call")
        qty == Ceil(spot_qty, QtyUnit) * QtyUnit
        price == get_ticker(tickAnswers)
    IN  IF S.raised \/ inst.raised THEN StrategyRaised
        ELSE StrategyResult(
                 [strategy |-> "covered_call", instrument |-> inst.instrument_name,
                  size |-> -qty, cost |-> -qty * price, timestamp |-> today])

CollarRecord_put_cost(put, call, today) ==
    IF put.raised \/ call.raised THEN StrategyRaised
    ELSE StrategyResult(
             [strategy |-> "collar", size |-> put.res.size, put |-> put.res,
              call |-> call.res, cost |-> put.res.cost, timestamp |-> today])

\* the record collar returns from what its two children returned
CollarRecord(put, call, today) ==
    IF put.raised \/ call.raised THEN StrategyRaised
    ELSE StrategyResult(
             [strategy |-> "collar", size |-> put.res.size, put |-> put.res,
              call |-> call.res, cost |-> put.res.cost + call.res.cost,
              timestamp |-> today])

\* spotAnswers, catalogs: <<for the put, for the call>>
collar(asset, spot_qty, put_strike, call_strike, days, vol, client, spotAnswers, catalogs, tickAnswers, today) ==
    CollarRecord(hedge_protective_put(asset, spot_qty, put_strike, days, vol, client,
                                      spotAnswers[1], catalogs[1], tickAnswers, today),
                 covered_call(asset, spot_qty, call_strike, days, vol, client,
                              spotAnswers[2], catalogs[2], tickAnswers, today),
                 today)

delta_neutral_same_sign(asset, spot_qty, perp_qty, threshold, client, perpAnswers, today) ==
    LET perp_price == client_get_price(client, perpAnswers)
        hedge == hedge_amount(RiskCalculator(spot_qty, perp_qty, threshold))
    IN  IF perp_price.raised THEN StrategyRaised
        ELSE StrategyResult(
                 [strategy |-> "delta_neutral", size |-> hedge,
                  cost |-> Abs(hedge * perp_price.price), timestamp |-> today])

delta_neutral_within_band(asset, spot_qty, perp_qty, threshold, client, perpAnswers, today) ==
    LET perp_price == client_get_price(client, perpAnswers)
        band == RiskCalculator(spot_qty, perp_qty, threshold)
        hedge == IF needs_hedge(band) THEN - hedge_amount(band) ELSE 0
    IN  IF perp_price.raised THEN StrategyRaised
        ELSE StrategyResult(
                 [strategy |-> "delta_neutral", size |-> hedge,
                  cost |-> Abs(hedge * perp_price.price), timestamp |-> today])

delta_neutral(asset, spot_qty, perp_qty, threshold, client, perpAnswers, today) ==
    LET perp_price == client_get_price(client, perpAnswers)
        hedge == - hedge_amount(RiskCalculator(spot_qty, perp_qty, threshold))
    IN  IF perp_price.raised THEN StrategyRaised
        ELSE StrategyResult(
                 [strategy |-> "delta_neutral", size |-> hedge,
                  cost |-> Abs(hedge * perp_price.price), timestamp |-> today])

(***************************************************************************)
(* bot.py: the shared state and the /auto_hedge and /set_exchange handlers *)
(***************************************************************************)
\* a command argument: its text, and what float() and int() make of it ({} = ValueError)
Word(text) == [text |-> text, float |-> {}, int |-> {}]
Num(n) == [text |-> "", float |-> {n}, int |-> {n}]

\* str.upper() and str.lower() on the words of the model
Upper(text) == IF text = "btc" THEN "BTC" ELSE text
Lower(text) == IF text = "OKX" THEN "okx" ELSE text

AutoHedgeArgs ==
    { <<>>,
      <<Word("straddle"), Word("BTC"), Num(1)>>,
      <<Word("delta_neutral"), Word("btc"), Num(2), Num(-1)>>,
      <<Word("delta_neutral"), Word("BTC"), Num(1)>>,
      <<Word("protective_put"), Word("BTC"), Num(1), Num(1), Num(DaysPerYear), Num(1)>>,
      <<Word("protective_put"), Word("BTC"), Num(1), Num(1), Num(0), Num(1)>>,
      <<Word("protective_put"), Word("BTC"), Num(1), Num(1), Word("soon"), Num(1)>>,
      <<Word("covered_call"), Word("BTC"), Num(1), Num(1), Num(DaysPerYear), Num(1)>>,
      <<Word("collar"), Word("BTC"), Num(1), Num(1), Num(2), Num(DaysPerYear), Num(1)>>,
      <<Word("collar"), Word("BTC"), Num(1), Num(1), Num(DaysPerYear), Num(1)>> }

SetExchangeArgs ==
    { <<>>, <<Word("auto")>>, <<Word("deribit")>>, <<Word("OKX")>>, <<Word("bybit")>>,
      <<Word("kraken")>> }

\* the venue answers one /auto_hedge call meets, per call site:
\*   spot[1] the handler's get_spot_price, spot[2] and spot[3] the put's and the call's;
\*   perp[1] delta_neutral's get_perpetual_price, perp[2] the handler's;
\*   cat[1], cat[2] the put's and the call's catalog query, cat[3], cat[4] those of the
\*   add_option of the put and of the call; tick: the option tickers
HedgeMarkets == {AllFail, OkxTwo}
HedgeCatalogs == {NoCatalog, FullCatalog}

\* the most legs one command appends
LegsOf(args) ==
    IF args = <<>> THEN 0
    ELSE IF args[1].text = "collar" THEN 3
    ELSE IF args[1].text \in {"protective_put", "covered_call"} THEN 2
    ELSE 1

Answers(args) ==
    LET strat == IF args = <<>> THEN "" ELSE args[1].text
        spots == IF strat = "collar" THEN [1..3 -> HedgeMarkets]
                 ELSE IF strat \in {"protective_put", "covered_call"}
                 THEN {[k \in 1..3 |-> IF k = 3 THEN AllFail ELSE f[k]] : f \in [1..2 -> HedgeMarkets]}
                 ELSE {[k \in 1..3 |-> AllFail]}
        perps == IF strat = "delta_neutral" THEN [1..2 -> HedgeMarkets]
                 ELSE {[k \in 1..2 |-> AllFail]}
        cats == IF strat = "collar" THEN [1..4 -> HedgeCatalogs]
                ELSE IF strat \in {"protective_put", "covered_call"}
                THEN {[k \in 1..4 |-> IF k = 1 THEN f[1] ELSE IF k = 3 THEN f[2] ELSE NoCatalog] :
                         f \in [1..2 -> HedgeCatalogs]}
                ELSE {[k \in 1..4 |-> NoCatalog]}
        ticks == IF strat \in {"collar", "protective_put", "covered_call"}
                 THEN {AllFail, DeribitOne} ELSE {AllFail}
    IN  [spot : spots, perp : perps, cat : cats, tick : ticks]

NoHedges == [a \in Assets |-> <<>>]

BotInit ==
    /\ portfolio = [asset |-> {}, spot |-> {}, perp |-> {}, threshold |-> 10, freq |-> 60,
                    preferred_exchange |-> "auto"]
    /\ hedge_log = NoHedges
    /\ reply = [handler |-> "none", outcome |-> "none", legs_before |-> 0, args |-> <<>>,
                queried |-> FALSE]

\* how a handler run ends once it has asked a venue: the ledger, the hedge log and
\* the outcome
Ended(legs, log, outcome) ==
    [positions |-> legs, hedge_log |-> log, outcome |-> outcome, queried |-> TRUE]

\* how a handler run ends that returned or raised before it asked any venue
Unqueried(outcome) ==
    [positions |-> positions, hedge_log |-> hedge_log, outcome |-> outcome,
     queried |-> FALSE]

\* "except Exception as e: reply Param error", after a venue was asked
ParamError(legs) == Ended(legs, hedge_log, "param_error")

\* the same reply when the unpacking or a cast of the arguments raised
ArgError == Unqueried("param_error")

\* what a run leaves in `reply`
Reply(handler, args, outcome, queried) ==
    [handler |-> handler, outcome |-> outcome, legs_before |-> Len(positions),
     args |-> args, queried |-> queried]

\* after the try block: the record is logged, then _calculate_trade_costs calls
\* client.estimate_slippage, which no client class defines
Logged(legs, asset, res) ==
    Ended(legs, [hedge_log EXCEPT ![asset] = Append(@, res)], "AttributeError")

\* the delta_neutral branch from the strategy's return on
DeltaNeutralHedged(asset, r, entry) ==
    IF r.raised \/ entry.raised THEN ParamError(positions)
    ELSE Logged(add_perp(positions, asset, r.res.size, entry.price, now), asset, r.res)

AutoHedgeDeltaNeutral(args, client, env) ==
    IF Len(args) # 4 THEN ArgError
    ELSE IF args[3].float = {} \/ args[4].float = {} THEN ArgError
    ELSE DeltaNeutralHedged(Upper(args[2].text),
             delta_neutral(Upper(args[2].text), Value(args[3].float), Value(args[4].float),
                           portfolio.threshold, client, env.perp[1], now),
             client_get_price(client, env.perp[2]))

\* the end of a branch whose last ledger call is add_option
OptionAdded(before, asset, r, withOption) ==
    IF withOption.raised THEN ParamError(before)
    ELSE Logged(withOption.positions, asset, r.res)

\* the protective_put / covered_call branch from the spot price on: add_spot runs
\* as soon as the price is known, before the strategy r is looked at
OptionHedged(asset, option_type, spot_qty, strike, days, vol, spot, r, env) ==
    IF spot.raised THEN ParamError(positions)
    ELSE IF r.raised THEN ParamError(add_spot(positions, asset, spot_qty, spot.price, now))
    ELSE OptionAdded(add_spot(positions, asset, spot_qty, spot.price, now), asset, r,
             add_option(add_spot(positions, asset, spot_qty, spot.price, now), env.cat[3],
                        asset, option_type, strike, days, vol, r.res.size,
                        get_ticker(env.tick), now))

\* protective_put and covered_call: add_spot, the strategy, add_option
AutoHedgeOption(args, client, env, option_type) ==
    IF Len(args) # 6 THEN ArgError
    ELSE IF args[3].float = {} \/ args[4].float = {} \/ args[5].int = {} \/ args[6].float = {}
    THEN ArgError
    ELSE OptionHedged(Upper(args[2].text), option_type, Value(args[3].float),
             Value(args[4].float), Value(args[5].int), Value(args[6].float),
             client_get_price(client, env.spot[1]),
             IF option_type = "put"
             THEN hedge_protective_put(Upper(args[2].text), Value(args[3].float),
                      Value(args[4].float), Value(args[5].int), Value(args[6].float),
                      client, env.spot[2], env.cat[1], env.tick, now)
             ELSE covered_call(Upper(args[2].text), Value(args[3].float),
                      Value(args[4].float), Value(args[5].int), Value(args[6].float),
                      client, env.spot[2], env.cat[1], env.tick, now),
             env)

\* the collar branch once the put leg is (or is not) in the ledger
CollarPutAdded(withSpot, asset, call_strike, days, vol, r, withPut, env) ==
    IF withPut.raised THEN ParamError(withSpot)
    ELSE OptionAdded(withPut.positions, asset, r,
             add_option(withPut.positions, env.cat[4], asset, "call", call_strike, days, vol,
                        r.res.call.size, get_ticker(env.tick), now))

\* the collar branch from the spot price on: add_spot, then the two add_option calls
CollarHedged(asset, spot_qty, put_strike, call_strike, days, vol, spot, r, env) ==
    IF spot.raised THEN ParamError(positions)
    ELSE IF r.raised THEN ParamError(add_spot(positions, asset, spot_qty, spot.price, now))
    ELSE CollarPutAdded(add_spot(positions, asset, spot_qty, spot.price, now), asset,
             call_strike, days, vol, r,
             add_option(add_spot(positions, asset, spot_qty, spot.price, now), env.cat[3],
                        asset, "put", put_strike, days, vol, r.res.put.size,
                        get_ticker(env.tick), now),
             env)

AutoHedgeCollar(args, client, env) ==
    IF Len(args) # 7 THEN ArgError
    ELSE IF args[3].float = {} \/ args[4].float = {} \/ args[5].float = {}
            \/ args[6].int = {} \/ args[7].float = {}
    THEN ArgError
    ELSE CollarHedged(Upper(args[2].text), Value(args[3].float), Value(args[4].float),
             Value(args[5].float), Value(args[6].int), Value(args[7].float),
             client_get_price(client, env.spot[1]),
             collar(Upper(args[2].text), Value(args[3].float), Value(args[4].float),
                    Value(args[5].float), Value(args[6].int), Value(args[7].float), client,
                    <<env.spot[2], env.spot[3]>>, <<env.cat[1], env.cat[2]>>, env.tick, now),
             env)

auto_hedge(args, env) ==
    IF args = <<>> THEN Unqueried("usage")
    ELSE LET strat == Lower(args[1].text)
             client == portfolio.preferred_exchange
         IN  IF strat = "delta_neutral" THEN AutoHedgeDeltaNeutral(args, client, env)
             ELSE IF strat = "protective_put" THEN AutoHedgeOption(args, client, env, "put")
             ELSE IF strat = "covered_call" THEN AutoHedgeOption(args, client, env, "call")
             ELSE IF strat = "collar" THEN AutoHedgeCollar(args, client, env)
             ELSE Unqueried("unknown_strategy")

AutoHedge ==
    \E args \in AutoHedgeArgs :
        \E env \in Answers(args) :
            LET end == auto_hedge(args, env)
            IN  /\ Len(positions) + LegsOf(args) <= MaxLegs
                /\ positions' = end.positions
                /\ hedge_log' = end.hedge_log
                /\ reply' = Reply("auto_hedge", args, end.outcome, end.queried)
                /\ UNCHANGED <<portfolio, lastCall, now, scan, riskVars, clientVars, callVars>>

SetExchange ==
    \E args \in SetExchangeArgs :
        LET exchange == Lower(args[1].text)
        IN  /\ IF args = <<>>
               THEN /\ reply' = Reply("set_exchange", args, "usage", FALSE)
                    /\ UNCHANGED portfolio
               ELSE IF exchange \notin {"auto", "deribit", "okx", "bybit"}
               THEN /\ reply' = Reply("set_exchange", args, "invalid", FALSE)
                    /\ UNCHANGED portfolio
               ELSE /\ portfolio' = [portfolio EXCEPT !.preferred_exchange = exchange]
                    /\ reply' = Reply("set_exchange", args, "ok", FALSE)
            /\ UNCHANGED <<hedge_log, positions, lastCall, now, scan, riskVars, clientVars, callVars>>

(***************************************************************************)
(* risk.py: the price-series methods of RiskCalculator.  A price is a      *)
(* power of two and np.log is kept in units of ln 2, so a log-return is a  *)
(* whole number.  A result is a value, nan (numpy divides 0 by 0 with a    *)
(* warning, not an exception) or an error (an exception).                  *)
(***************************************************************************)
MaxPoints == 3
MaxSeries == 3

SeqsUpTo(S, n) == UNION {[1..k -> S] : k \in 0..n}

RECURSIVE SumSeq(_)
SumSeq(seq) == IF seq = <<>> THEN 0 ELSE Head(seq) + SumSeq(Tail(seq))

\* np.log of a price, in units of ln 2
Log2(p) == CASE p = 1 -> 0 [] p = 2 -> 1 [] p = 4 -> 2 [] p = 8 -> 3 [] p = 16 -> 4

\* np.diff(np.log(prices))
LogReturns(prices) ==
    IF Len(prices) <= 1 THEN <<>>
    ELSE [i \in 1..(Len(prices) - 1) |-> Log2(prices[i + 1]) - Log2(prices[i])]

\* the deviations from the mean, times the number of points: n * x[i] - sum(x)
Deviations(x) == [i \in 1..Len(x) |-> Len(x) * x[i] - SumSeq(x)]

\* sum of the products of two deviation lists of one length
Products(u, v) == SumSeq([i \in 1..Len(u) |-> u[i] * v[i]])

\* floor of the square root
ISqrt(x) == CHOOSE k \in 0..4000 : k * k <= x /\ (k + 1) * (k + 1) > x

RECURSIVE Insert(_, _)
Insert(x, sorted) ==
    IF sorted = <<>> THEN <<x>>
    ELSE IF x <= Head(sorted) THEN <<x>> \o sorted
    ELSE <<Head(sorted)>> \o Insert(x, Tail(sorted))

RECURSIVE Sorted(_)
Sorted(seq) == IF seq = <<>> THEN <<>> ELSE Insert(Head(seq), Sorted(Tail(seq)))

\* np.percentile(returns, 5) with linear interpolation, in twentieths: the position
\* 0.05 * (n - 1) lies between the two smallest values (n <= 20)
Percentile5(returns) ==
    LET x == Sorted(returns)
    IN  IF Len(x) = 1 THEN 20 * x[1]
        ELSE 20 * x[1] + (Len(x) - 1) * (x[2] - x[1])

SeriesValue(path, v) == [kind |-> "value", path |-> path, val |-> v]
SeriesNan(path) == [kind |-> "nan", path |-> path, val |-> 0]
SeriesError == [kind |-> "error", path |-> "none", val |-> 0]

\* norm.ppf(0.05), in thousandths
Z05 == -1645

Max(a, b) == IF a >= b THEN a ELSE b

\* var(prices, confidence = 0.95), in thousandths of ln 2 times the spot size.
\* n = number of returns; sigma = np.std(returns, ddof=1) is nan for n = 1, and then
\* "sigma < 1e-8" is false and max(nan, 0.0) is nan; sigma is below 1e-8 exactly when
\* all returns are equal
var(self, prices) ==
    LET returns == LogReturns(prices)
        n == Len(returns)
        q == Products(Deviations(returns), Deviations(returns))
    IN  IF n = 0 THEN SeriesError
        ELSE IF n = 1 THEN SeriesNan("parametric")
        ELSE IF q = 0
        THEN SeriesValue("empirical", -(Percentile5(returns) * 50) * Abs(self.spot))
        ELSE SeriesValue("parametric",
                 Max(-(((1000 * SumSeq(returns)) \div n)
                        + (ISqrt((1000000 * q) \div (n * n * (n - 1))) * Z05) \div 1000)
                     * Abs(self.spot), 0))

\* np.maximum.accumulate(pnl_series)
RECURSIVE Accumulate(_, _)
Accumulate(seq, top) ==
    IF seq = <<>> THEN <<>>
    ELSE <<Max(top, Head(seq))>> \o Accumulate(Tail(seq), Max(top, Head(seq)))

\* np.max of a non-empty list
RECURSIVE NpMax(_)
NpMax(seq) == IF Len(seq) = 1 THEN seq[1] ELSE Max(Head(seq), NpMax(Tail(seq)))

max_drawdown_last(self, pnl_series) ==
    IF pnl_series = <<>> THEN SeriesError
    ELSE SeriesValue("none",
             Accumulate(pnl_series, pnl_series[1])[Len(pnl_series)]
                 - pnl_series[Len(pnl_series)])

\* np.max of an empty list is a ValueError
max_drawdown(self, pnl_series) ==
    LET cumulative == IF pnl_series = <<>> THEN <<>>
                      ELSE Accumulate(pnl_series, pnl_series[1])
        drawdowns == [i \in 1..Len(pnl_series) |-> cumulative[i] - pnl_series[i]]
    IN  IF pnl_series = <<>> THEN SeriesError
        ELSE SeriesValue("none", NpMax(drawdowns))

MatrixError == [kind |-> "error", rows |-> 0, cols |-> 0]

\* price_dict: the series of the dict, in its order.  Series of one point or none are
\* left out; np.corrcoef of rows of different lengths is a ValueError.  Only the shape
\* of the matrix is kept.
correlation_matrix(self, price_dict) ==
    LET aligned == SelectSeq(price_dict, LAMBDA prices : Len(prices) > 1)
    IN  IF Len(aligned) < 2 THEN MatrixError
        ELSE IF \E i \in 1..Len(aligned) : Len(aligned[i]) # Len(aligned[1])
        THEN MatrixError
        ELSE [kind |-> "value", rows |-> Len(aligned), cols |-> Len(aligned)]

Ratio(num, den) == [kind |-> "value", num |-> num, den |-> den]
RatioNan == [kind |-> "nan", num |-> 0, den |-> 1]
RatioError == [kind |-> "error", num |-> 0, den |-> 1]

\* cov(r_a, r_b) / var(r_b), both with ddof = 1, as the fraction num / den.  np.cov of
\* lists of different lengths is a ValueError; with fewer than two returns, or with a
\* constant benchmark, numpy divides 0 by 0 and the result is nan
beta(self, prices_benchmark, prices_asset) ==
    LET r_b == LogReturns(prices_benchmark)
        r_a == LogReturns(prices_asset)
    IN  IF Len(r_a) # Len(r_b) THEN RatioError
        ELSE IF Len(r_b) < 2 THEN RatioNan
        ELSE IF Products(Deviations(r_b), Deviations(r_b)) = 0 THEN RatioNan
        ELSE Ratio(Products(Deviations(r_a), Deviations(r_b)),
                   Products(Deviations(r_b), Deviations(r_b)))

\* the spot size times a beta
TimesSpot(self, b) == IF b.kind = "value" THEN Ratio(self.spot * b.num, b.den) ELSE b

\* self.beta(spot_series, perp_series): the spot series is passed as the benchmark
perp_hedge_ratio(self, spot_series, perp_series) ==
    TimesSpot(self, beta(self, spot_series, perp_series))

SeriesPrices == {1, 2, 4}
PriceSeries == SeqsUpTo(SeriesPrices, MaxPoints)
PnlExample == <<0, 10, 5, 15, 7, 20, 12>>
PnlSeries == SeqsUpTo({0, 5, 10}, MaxPoints) \cup {PnlExample}
DictSeries == {<<>>, <<1>>, <<1, 2>>, <<1, 2, 4>>, <<2, 1, 2>>}
PriceDicts == SeqsUpTo(DictSeries, MaxSeries)

SeriesCalled(op, args, out) == [op |-> op, args |-> args, out |-> out]
NoSeriesCall == SeriesCalled("none", <<>>, SeriesError)

SeriesIdle == seriesCall = NoSeriesCall

\* a behaviour is one call of one method on a calculator just constructed

SeriesInit ==
    /\ rc \in {RiskCalculator(s, 0, 10) : s \in SpotSizes}
    /\ rcOut = NoRiskOut
    /\ seriesCall = NoSeriesCall

CallVar ==
    /\ seriesCall = NoSeriesCall
    /\ \E prices \in PriceSeries :
           /\ seriesCall' = SeriesCalled("var", <<prices>>, var(rc, prices))
           /\ UNCHANGED <<riskVars, clientVars, ledgerVars, botVars, strategyCall>>

CallMaxDrawdown ==
    /\ seriesCall = NoSeriesCall
    /\ \E pnl_series \in PnlSeries :
           /\ seriesCall' = SeriesCalled("max_drawdown", <<pnl_series>>,
                                      max_drawdown(rc, pnl_series))
           /\ UNCHANGED <<riskVars, clientVars, ledgerVars, botVars, strategyCall>>

CallCorrelationMatrix ==
    /\ seriesCall = NoSeriesCall
    /\ \E price_dict \in PriceDicts :
           /\ seriesCall' = SeriesCalled("correlation_matrix", <<price_dict>>,
                                      correlation_matrix(rc, price_dict))
           /\ UNCHANGED <<riskVars, clientVars, ledgerVars, botVars, strategyCall>>

CallBeta ==
    /\ seriesCall = NoSeriesCall
    /\ \E prices_benchmark \in PriceSeries : \E prices_asset \in PriceSeries :
           /\ seriesCall' = SeriesCalled("beta", <<prices_benchmark, prices_asset>>,
                                      beta(rc, prices_benchmark, prices_asset))
           /\ UNCHANGED <<riskVars, clientVars, ledgerVars, botVars, strategyCall>>

CallPerpHedgeRatio ==
    /\ seriesCall = NoSeriesCall
    /\ \E spot_series \in PriceSeries : \E perp_series \in PriceSeries :
           /\ seriesCall' = SeriesCalled("perp_hedge_ratio", <<spot_series, perp_series>>,
                                      perp_hedge_ratio(rc, spot_series, perp_series))
           /\ UNCHANGED <<riskVars, clientVars, ledgerVars, botVars, strategyCall>>

(***************************************************************************)
(* bot.py: /monitor_risk, /start_monitoring, /configure, /risk_report,     *)
(* /hedge_now and the inline buttons                                       *)
(***************************************************************************)
\* /auto_hedge command lines with a wrong count or an uncastable word for every
\* strategy, and a delta_neutral line that is well formed
CommandHedgeArgs ==
    { <<>>,
      <<Word("straddle"), Word("BTC"), Num(1)>>,
      <<Word("delta_neutral"), Word("btc"), Num(2), Num(-1)>>,
      <<Word("delta_neutral"), Word("BTC"), Num(1)>>,
      <<Word("delta_neutral"), Word("BTC"), Word("x"), Num(-1)>>,
      <<Word("protective_put"), Word("BTC"), Num(1), Num(1), Word("soon"), Num(1)>>,
      <<Word("protective_put"), Word("BTC"), Num(1), Num(1), Num(DaysPerYear)>>,
      <<Word("covered_call"), Word("BTC"), Num(1), Word("high"), Num(DaysPerYear), Num(1)>>,
      <<Word("covered_call"), Word("BTC"), Num(1)>>,
      <<Word("collar"), Word("BTC"), Num(1), Num(1), Num(DaysPerYear), Num(1)>>,
      <<Word("collar"), Word("BTC"), Num(1), Num(1), Num(2), Word("soon"), Num(1)>> }

\* the venue answers these command lines meet: only the delta_neutral lines are
\* followed by venue queries that succeed or fail independently
CommandAnswers(args) ==
    IF args # <<>> /\ args[1].text = "delta_neutral" THEN Answers(args)
    ELSE {[spot |-> [k \in 1..3 |-> m], perp |-> [k \in 1..2 |-> m],
           cat |-> [k \in 1..4 |-> FullCatalog], tick |-> m] : m \in HedgeMarkets}

\* /auto_hedge on the command lines above
CommandAutoHedge ==
    \E args \in CommandHedgeArgs :
        \E env \in CommandAnswers(args) :
            LET end == auto_hedge(args, env)
            IN  /\ Len(positions) + LegsOf(args) <= MaxLegs
                /\ positions' = end.positions
                /\ hedge_log' = end.hedge_log
                /\ reply' = Reply("auto_hedge", args, end.outcome, end.queried)
                /\ UNCHANGED <<portfolio, lastCall, now, scan, riskVars, clientVars, callVars>>

MonitorRiskArgs ==
    { <<>>,
      <<Word("btc"), Num(2), Num(-1), Num(10)>>,
      <<Word("BTC"), Num(2), Word("x"), Num(10)>>,
      <<Word("BTC"), Num(2), Num(-1), Num(10), Word("kraken")>> }

StartMonitoringArgs ==
    { <<>>,
      <<Word("BTC"), Num(2), Num(-1), Num(10)>>,
      <<Word("BTC"), Num(2), Num(-1), Num(10), Num(30)>>,
      <<Word("BTC"), Num(2), Num(-1), Num(10), Word("fast")>> }

\* key=value words, split at the first '='
ConfigureArgs ==
    { <<>>,
      <<[k |-> "threshold", v |-> Num(5)]>>,
      <<[k |-> "freq", v |-> Num(30)]>>,
      <<[k |-> "threshold", v |-> Word("abc")]>>,
      <<[k |-> "preferred_exchange", v |-> Word("kraken")]>> }

RiskReportArgs ==
    { <<>>,
      <<Word("BTC"), Num(1), Num(-1), Num(30), Num(1)>>,
      <<Word("BTC"), Num(1), Num(-1), Word("month"), Num(1)>>,
      <<Word("BTC"), Num(1), Num(-1), Num(30)>> }

HedgeNowArgs ==
    { <<>>, <<Word("BTC")>>, <<Word("BTC"), Word("all")>>, <<Word("btc"), Num(1)>>,
      <<Word("BTC"), Num(1), Word("now")>> }

ButtonData == {"hedge_now", "adjust_threshold", "view_analytics"}

\* how a handler run ends that touches the portfolio only
Handled(pf, outcome, queried) == [portfolio |-> pf, outcome |-> outcome, queried |-> queried]

\* portfolio.update({...}) of monitor_risk
PortfolioUpdate(args, exchange) ==
    [portfolio EXCEPT !.asset = {Upper(args[1].text)}, !.spot = args[2].float,
                      !.perp = args[3].float, !.threshold = Value(args[4].float),
                      !.preferred_exchange = exchange]

\* monitor_risk from the price queries on: an ExchangeError is replied to, then
\* _calculate_trade_costs calls client.estimate_slippage, which no client class defines
Monitored(updated, sp_price, pp_price) ==
    IF sp_price.raised \/ pp_price.raised THEN Handled(updated, "exchange_error", TRUE)
    ELSE Handled(updated, "AttributeError", TRUE)

monitor_risk_optional_exchange(args, spotAnswers, perpAnswers) ==
    IF Len(args) < 4 THEN Handled(portfolio, "usage", FALSE)
    ELSE IF args[2].float = {} \/ args[3].float = {} \/ args[4].float = {}
    THEN Handled(portfolio, "not_numbers", FALSE)
    ELSE Monitored(PortfolioUpdate(args, IF Len(args) > 4 THEN args[5].text
                                         ELSE portfolio.preferred_exchange),
                   client_get_price(portfolio.preferred_exchange, spotAnswers),
                   client_get_price(portfolio.preferred_exchange, perpAnswers))

\* exchange = args[4] if len(args) > 4 else portfolio['preferred_exchange'], reached
\* only with len(args) = 4
monitor_risk(args, spotAnswers, perpAnswers) ==
    IF Len(args) # 4 THEN Handled(portfolio, "usage", FALSE)
    ELSE IF args[2].float = {} \/ args[3].float = {} \/ args[4].float = {}
    THEN Handled(portfolio, "not_numbers", FALSE)
    ELSE Monitored(PortfolioUpdate(args, IF Len(args) > 4 THEN args[5].text
                                         ELSE portfolio.preferred_exchange),
                   client_get_price(portfolio.preferred_exchange, spotAnswers),
                   client_get_price(portfolio.preferred_exchange, perpAnswers))

MonitorRisk ==
    \E args \in MonitorRiskArgs, spotAnswers \in HedgeMarkets, perpAnswers \in HedgeMarkets :
        LET end == monitor_risk(args, spotAnswers, perpAnswers)
        IN  /\ portfolio' = end.portfolio
            /\ reply' = Reply("monitor_risk", args, end.outcome, end.queried)
            /\ UNCHANGED <<hedge_log, positions, lastCall, now, scan, riskVars, clientVars, callVars>>

\* start_monitoring after its monitor_risk call returned: the frequency, then the job
Scheduled(args, first) ==
    IF first.outcome = "AttributeError" THEN first
    ELSE IF Len(args) = 5 /\ args[5].int # {}
    THEN Handled([first.portfolio EXCEPT !.freq = Value(args[5].int)], "monitoring",
                 first.queried)
    ELSE Handled(first.portfolio, "monitoring", first.queried)

start_monitoring(args, spotAnswers, perpAnswers) ==
    Scheduled(args, IF Len(args) >= 4 THEN monitor_risk(args, spotAnswers, perpAnswers)
                    ELSE Handled(portfolio, "none", FALSE))

StartMonitoring ==
    \E args \in StartMonitoringArgs, spotAnswers \in HedgeMarkets, perpAnswers \in HedgeMarkets :
        LET end == start_monitoring(args, spotAnswers, perpAnswers)
        IN  /\ portfolio' = end.portfolio
            /\ reply' = Reply("start_monitoring", args, end.outcome, end.queried)
            /\ UNCHANGED <<hedge_log, positions, lastCall, now, scan, riskVars, clientVars, callVars>>

\* the loop of configure from word i on; float() and int() are not guarded
RECURSIVE ConfigureLoop(_, _, _)
ConfigureLoop(args, i, pf) ==
    IF i > Len(args) THEN Handled(pf, "ok", FALSE)
    ELSE IF args[i].k = "threshold"
    THEN IF args[i].v.float = {} THEN Handled(pf, "ValueError", FALSE)
         ELSE ConfigureLoop(args, i + 1, [pf EXCEPT !.threshold = Value(args[i].v.float)])
    ELSE IF args[i].k = "freq"
    THEN IF args[i].v.int = {} THEN Handled(pf, "ValueError", FALSE)
         ELSE ConfigureLoop(args, i + 1, [pf EXCEPT !.freq = Value(args[i].v.int)])
    ELSE ConfigureLoop(args, i + 1, pf)

configure(args) == ConfigureLoop(args, 1, portfolio)

Configure ==
    \E args \in ConfigureArgs :
        LET end == configure(args)
        IN  /\ portfolio' = end.portfolio
            /\ reply' = Reply("configure", args, end.outcome, end.queried)
            /\ UNCHANGED <<hedge_log, positions, lastCall, now, scan, riskVars, clientVars, callVars>>

\* risk_report once the history is there
Reported(spot, perp, series) ==
    IF Len(series) < 2 THEN Handled(portfolio, "not_enough_data", TRUE)
    ELSE IF \/ var(RiskCalculator(spot, perp, portfolio.threshold), series).kind = "error"
            \/ max_drawdown(RiskCalculator(spot, perp, portfolio.threshold),
                            [i \in 1..Len(series) |-> (series[i] - series[1]) * perp]).kind
                   = "error"
            \/ correlation_matrix(RiskCalculator(spot, perp, portfolio.threshold),
                                  <<series, series>>).kind = "error"
    THEN Handled(portfolio, "error", TRUE)
    ELSE Handled(portfolio, "ok", TRUE)

risk_report(args, history) ==
    IF Len(args) # 5 THEN Handled(portfolio, "usage", FALSE)
    ELSE IF args[2].float = {} \/ args[3].float = {} \/ args[4].int = {} \/ args[5].float = {}
    THEN Handled(portfolio, "usage", FALSE)
    ELSE Reported(Value(args[2].float), Value(args[3].float),
                  get_historical_prices(history, "deribit"))

RiskReport ==
    \E args \in RiskReportArgs, answer \in HistoryAnswers :
        LET end == risk_report(args, [v \in Venues |-> IF v = "deribit" THEN answer ELSE NoSeries])
        IN  /\ reply' = Reply("risk_report", args, end.outcome, end.queried)
            /\ UNCHANGED <<portfolio, hedge_log, positions, lastCall, now, scan, riskVars, clientVars, callVars>>

\* the positional parameters of strategies.delta_neutral: asset, spot_qty, perp_qty,
\* threshold, client
DeltaNeutralParams == 5

\* hedge_now from the strategy's return on: add_perp, then the hedge log
HedgedNow(asset, r, entry) ==
    IF r.raised \/ entry.raised THEN Ended(positions, hedge_log, "ExchangeError")
    ELSE Ended(add_perp(positions, asset, r.res.size, entry.price, now),
               [hedge_log EXCEPT ![asset] = Append(@, r.res)], "ok")

\* delta_neutral is called with four arguments
hedge_now(args, perpAnswers) ==
    IF Len(args) < 2 THEN Unqueried("usage")
    ELSE IF args[2].float = {} THEN Unqueried("usage")
    ELSE IF 4 # DeltaNeutralParams THEN Unqueried("TypeError")
    ELSE HedgedNow(Upper(args[1].text),
             delta_neutral(Upper(args[1].text), Value(args[2].float), Value(portfolio.perp),
                           portfolio.threshold, portfolio.preferred_exchange,
                           perpAnswers[1], now),
             client_get_price(portfolio.preferred_exchange, perpAnswers[2]))

HedgeNow ==
    \E args \in HedgeNowArgs, perpAnswers \in [1..2 -> HedgeMarkets] :
        LET end == hedge_now(args, perpAnswers)
        IN  /\ Len(positions) < MaxLegs
            /\ positions' = end.positions
            /\ hedge_log' = end.hedge_log
            /\ reply' = Reply("hedge_now", args, end.outcome, end.queried)
            /\ UNCHANGED <<portfolio, lastCall, now, scan, riskVars, clientVars, callVars>>

\* how a button press ends
Pressed(legs, log, pf, outcome, queried) ==
    [positions |-> legs, hedge_log |-> log, portfolio |-> pf, outcome |-> outcome,
     queried |-> queried]

\* the "hedge_now" button from the strategy's return on: the portfolio's perp and the
\* hedge log are written before add_perp asks for its entry price
ButtonHedged(asset, r, entry) ==
    IF r.raised THEN Pressed(positions, hedge_log, portfolio, "ExchangeError", TRUE)
    ELSE IF entry.raised
    THEN Pressed(positions, [hedge_log EXCEPT ![asset] = Append(@, r.res)],
                 [portfolio EXCEPT !.perp = {Value(@) + r.res.size}], "ExchangeError", TRUE)
    ELSE Pressed(add_perp(positions, asset, r.res.size, entry.price, now),
                 [hedge_log EXCEPT ![asset] = Append(@, r.res)],
                 [portfolio EXCEPT !.perp = {Value(@) + r.res.size}], "ok", TRUE)

\* delta_neutral is called with four arguments here too
button_handler(data, perpAnswers) ==
    IF data = "hedge_now"
    THEN IF 4 # DeltaNeutralParams
         THEN Pressed(positions, hedge_log, portfolio, "TypeError", FALSE)
         ELSE ButtonHedged(Value(portfolio.asset),
                  delta_neutral(Value(portfolio.asset), Value(portfolio.spot),
                                Value(portfolio.perp), portfolio.threshold,
                                portfolio.preferred_exchange, perpAnswers[1], now),
                  client_get_price(portfolio.preferred_exchange, perpAnswers[2]))
    ELSE IF data = "adjust_threshold"
    THEN Pressed(positions, hedge_log, portfolio, "prompt", FALSE)
    ELSE Pressed(positions, hedge_log, portfolio, "analytics", FALSE)

\* a button is pressed on a message monitor_risk or the monitoring job sent, which
\* they send once the portfolio names an asset
ButtonHandler ==
    \E data \in ButtonData, perpAnswers \in [1..2 -> HedgeMarkets] :
        LET end == button_handler(data, perpAnswers)
        IN  /\ portfolio.asset # {}
            /\ Len(positions) < MaxLegs
            /\ positions' = end.positions
            /\ hedge_log' = end.hedge_log
            /\ portfolio' = end.portfolio
            /\ reply' = Reply("button_handler", <<data>>, end.outcome, end.queried)
            /\ UNCHANGED <<lastCall, now, scan, riskVars, clientVars, callVars>>

(***************************************************************************)
(* Direct calls of the strategies and of their helpers                     *)
(***************************************************************************)
StrategyCalled(op, args, out) == [op |-> op, args |-> args, out |-> out]
NoStrategyCall == StrategyCalled("none", <<>>, StrategyRaised)

StrategyIdle == strategyCall = NoStrategyCall

\* quantities in tenths: 1.3 is 13
Quantities == {-5, 0, 10, 13}
\* threshold percentages
BandThresholds == {0, 10, 50}
HedgerSpots == {1, 2, 4096}
HedgerExpiries == {0, DaysPerYear}
StrategyStrikes == {1, 2}
Clients == {"auto", "deribit", "okx", "bybit"}
OptionTickers == {AllFail, DeribitOne, DeribitTwo}
FindExpiries == {0, 300, DaysPerYear, 600}
FindStrikes == {1, 2, 3}

\* a behaviour is one call on the state after construction
CallHedgeQty ==
    /\ strategyCall = NoStrategyCall
    /\ \E S \in HedgerSpots, days \in HedgerExpiries, sigma \in Volatilities, spot_qty \in Quantities :
           LET hedger == OptionsHedger(S, 1, YearFraction(days), 0, sigma, spot_qty)
           IN  /\ strategyCall' = StrategyCalled("hedge_qty", hedger, hedge_qty(hedger))
               /\ UNCHANGED <<riskVars, clientVars, ledgerVars, botVars, seriesCall>>

CallFindOptionInstrument ==
    /\ strategyCall = NoStrategyCall
    /\ \E catalog \in CatalogAnswers, strike \in FindStrikes, days \in FindExpiries, option_type \in OptionTypes :
           /\ strategyCall' =
                  StrategyCalled("find_option_instrument",
                      [catalog |-> catalog, strike |-> strike, days |-> days,
                       option_type |-> option_type],
                      find_option_instrument(catalog, now, strike, days, option_type))
           /\ UNCHANGED <<riskVars, clientVars, ledgerVars, botVars, seriesCall>>

CallDeltaNeutral ==
    /\ strategyCall = NoStrategyCall
    /\ \E spot_qty \in Quantities, perp_qty \in Quantities, threshold \in BandThresholds, client \in Clients, perp \in Markets :
           /\ strategyCall' =
                  StrategyCalled("delta_neutral",
                      [spot_qty |-> spot_qty, perp_qty |-> perp_qty,
                       threshold |-> threshold, client |-> client, perp |-> perp],
                      delta_neutral("BTC", spot_qty, perp_qty, threshold, client, perp, now))
           /\ UNCHANGED <<riskVars, clientVars, ledgerVars, botVars, seriesCall>>

\* GreeksCalculator's four class methods
GreekNames == {"delta", "gamma", "theta", "vega"}
GreekSpots == {-1, 0, 1, 2}
GreekStrikes == {-1, 0, 1}
GreekExpiries == {-DaysPerYear, 0, DaysPerYear}
GreekVolatilities == {-1, 0, 1}

GreeksCalculator(name, S, K, T, r, sigma, otype) ==
    CASE name = "delta" -> delta(S, K, T, r, sigma, otype)
      [] name = "gamma" -> gamma(S, K, T, r, sigma)
      [] name = "theta" -> theta(S, K, T, r, sigma, otype)
      [] name = "vega" -> vega(S, K, T, r, sigma)

CallGreek ==
    /\ strategyCall = NoStrategyCall
    /\ \E name \in GreekNames, S \in GreekSpots, K \in GreekStrikes, days \in GreekExpiries, sigma \in GreekVolatilities, otype \in OptionTypes :
           /\ strategyCall' =
                  StrategyCalled(name,
                      [S |-> S, K |-> K, days |-> days, sigma |-> sigma, otype |-> otype],
                      GreeksCalculator(name, S, K, YearFraction(days), 0, sigma, otype))
           /\ UNCHANGED <<riskVars, clientVars, ledgerVars, botVars, seriesCall>>

\* the arguments of a put or a call strategy and the answers the venues give it
OptionCalls ==
    [spot_qty : Quantities, strike : StrategyStrikes, days : HedgerExpiries,
     vol : Volatilities, client : Clients, spot : Markets, catalog : CatalogAnswers,
     tick : OptionTickers]

CallHedgeProtectivePut ==
    /\ strategyCall = NoStrategyCall
    /\ \E a \in OptionCalls :
           /\ strategyCall' =
                  StrategyCalled("protective_put", a,
                      hedge_protective_put("BTC", a.spot_qty, a.strike, a.days, a.vol,
                                           a.client, a.spot, a.catalog, a.tick, now))
           /\ UNCHANGED <<riskVars, clientVars, ledgerVars, botVars, seriesCall>>

CallCoveredCall ==
    /\ strategyCall = NoStrategyCall
    /\ \E a \in OptionCalls :
           /\ strategyCall' =
                  StrategyCalled("covered_call", a,
                      covered_call("BTC", a.spot_qty, a.strike, a.days, a.vol,
                                   a.client, a.spot, a.catalog, a.tick, now))
           /\ UNCHANGED <<riskVars, clientVars, ledgerVars, botVars, seriesCall>>

\* spot and catalog: <<what the put meets, what the call meets>>
CollarCalls ==
    [spot_qty : {13}, put_strike : {1}, call_strike : StrategyStrikes,
     days : HedgerExpiries, vol : Volatilities, client : {"auto", "okx"},
     spot : Markets \X Markets, catalog : CatalogAnswers \X CatalogAnswers,
     tick : OptionTickers]

CallCollar ==
    /\ strategyCall = NoStrategyCall
    /\ \E a \in CollarCalls :
           /\ strategyCall' =
                  StrategyCalled("collar", a,
                      collar("BTC", a.spot_qty, a.put_strike, a.call_strike, a.days, a.vol,
                             a.client, a.spot, a.catalog, a.tick, now))
           /\ UNCHANGED <<riskVars, clientVars, ledgerVars, botVars, seriesCall>>

(***************************************************************************)
(* Specifications                                                          *)
(***************************************************************************)
RiskIdle == rc = RiskCalculator(0, 0, 0) /\ rcOut = NoRiskOut

ClientIdle ==
    /\ venueTicker = [v \in Venues |-> Failed]
    /\ venueHistory = [v \in Venues |-> NoSeries]
    /\ clientOut = NoClientOut

InitRisk == RiskInit /\ ClientIdle /\ LedgerInit /\ BotInit /\ SeriesIdle /\ StrategyIdle

NextRisk == CallNetDelta \/ CallThresholdLimit \/ CallNeedsHedge \/ CallHedgeAmount

SpecRisk == InitRisk /\ [][NextRisk]_vars

InitClient == ClientInit /\ RiskIdle /\ LedgerInit /\ BotInit /\ SeriesIdle /\ StrategyIdle

NextClient == CallGetBestPrice \/ CallGetAllExchangePrices \/ CallGetHistoricalPrices

SpecClient == InitClient /\ [][NextClient]_vars

InitLedger == LedgerInit /\ RiskIdle /\ ClientIdle /\ BotInit /\ SeriesIdle /\ StrategyIdle

NextLedger ==
    AddSpot \/ AddPerp \/ AddOption \/ ComputePortfolioGreeks \/ ComputePnlAttribution

SpecLedger == InitLedger /\ [][NextLedger]_vars

InitClock == ClockInit /\ RiskIdle /\ ClientIdle /\ BotInit /\ SeriesIdle /\ StrategyIdle

NextClock == Tick \/ ComputePortfolioGreeks \/ ComputePnlAttribution

SpecClock == InitClock /\ [][NextClock]_vars

InitOverlap == InitLedger

NextOverlap ==
    AddSpot \/ AddPerp \/ AddOption \/ BeginPortfolioGreeks \/ StepPortfolioGreeks
        \/ BeginPnlAttribution \/ StepPnlAttribution

SpecOverlap == InitOverlap /\ [][NextOverlap]_vars

InitBot == BotInit /\ LedgerInit /\ RiskIdle /\ ClientIdle /\ SeriesIdle /\ StrategyIdle

NextBot == AutoHedge \/ SetExchange

SpecBot == InitBot /\ [][NextBot]_vars

InitCommands == InitBot

NextCommands ==
    CommandAutoHedge \/ SetExchange \/ MonitorRisk \/ StartMonitoring \/ Configure
        \/ RiskReport \/ HedgeNow \/ ButtonHandler

SpecCommands == InitCommands /\ [][NextCommands]_vars

InitSeries == SeriesInit /\ ClientIdle /\ LedgerInit /\ BotInit /\ StrategyIdle

NextSeries ==
    CallVar \/ CallMaxDrawdown \/ CallCorrelationMatrix \/ CallBeta \/ CallPerpHedgeRatio

SpecSeries == InitSeries /\ [][NextSeries]_vars

InitStrategy == BotInit /\ LedgerInit /\ RiskIdle /\ ClientIdle /\ SeriesIdle /\ StrategyIdle

NextStrategy ==
    CallHedgeQty \/ CallFindOptionInstrument \/ CallDeltaNeutral \/ CallHedgeProtectivePut
        \/ CallCoveredCall \/ CallCollar \/ CallGreek

SpecStrategy == InitStrategy /\ [][NextStrategy]_vars

C2_ExampleRemainingExposure ==
    rc = RiskCalculator(100, 80, 10) =>
        /\ \A n \in rcOut.net_delta : n = 20
        /\ \A a \in rcOut.hedge_amount : a = 20
        /\ \A l \in rcOut.threshold_limit : l = 10 * 100
        /\ \A h \in rcOut.needs_hedge : h = TRUE

\* C3: RiskCalculator(spot=100, perp=91, threshold=10).needs_hedge() returns False.
C3_ExampleWithinBand ==
    rc = RiskCalculator(100, 91, 10) => \A h \in rcOut.needs_hedge : h = FALSE

(***************************************************************************)
(* Claims about MultiExchangeClient, under SpecClient                      *)
(***************************************************************************)
Yields(answers, exchange) == answers[exchange].ok /\ answers[exchange].price > 0

\* C8: get_best_price returns the price and name of the highest-priority venue, in the
\* order deribit, okx, bybit, whose query succeeded with a price > 0, whatever the
\* lower-priority venues return; it raises exactly when no venue yields a positive price.
C8_BestPriceIsFirstByPriority ==
    \A b \in clientOut.best :
        /\ b.raised <=> ~ \E v \in Venues : Yields(venueTicker, v)
        /\ ~ b.raised =>
              \E i \in 1..Len(exchange_priority) :
                  /\ b.exchange = exchange_priority[i]
                  /\ Yields(venueTicker, exchange_priority[i])
                  /\ b.price = venueTicker[exchange_priority[i]].price
                  /\ \A j \in 1..(i - 1) : ~ Yields(venueTicker, exchange_priority[j])

\* get_best_price answered from okx: deribit did not yield, bybit yields another price
C8_Witness ==
    /\ \E b \in clientOut.best : ~ b.raised /\ b.exchange = "okx"
    /\ ~ Yields(venueTicker, "deribit")
    /\ Yields(venueTicker, "bybit")
    /\ venueTicker["bybit"].price # venueTicker["okx"].price

Items(dict) == {dict[i] : i \in 1..Len(dict)}

\* C9: get_all_exchange_prices returns a map holding exactly the venues among deribit,
\* okx, bybit whose own query succeeded with a positive price, each with its own price;
\* venues that failed neither remove nor alter the entries of those that succeeded.
C9_AllPricesIsolatesFailures ==
    \A a \in clientOut.all :
        /\ Items(a) = {[exchange |-> v, price |-> venueTicker[v].price] :
                          v \in {w \in Venues : Yields(venueTicker, w)}}
        /\ Cardinality(Items(a)) = Len(a)

\* get_all_exchange_prices was called while deribit failed and okx and bybit yielded
C9_Witness ==
    /\ ~ venueTicker["deribit"].ok
    /\ Yields(venueTicker, "okx") /\ Yields(venueTicker, "bybit")
    /\ \E a \in clientOut.all : Len(a) = 2

\* the series of the first alternate venue that answered, empty when none did
FirstAlternateSeries(history) ==
    IF history["okx"].ok THEN history["okx"].close
    ELSE IF history["bybit"].ok THEN history["bybit"].close
    ELSE <<>>

\* C10: get_historical_prices(asset, days) with deribit failing returns the series of the
\* first alternate venue (okx, bybit) that succeeds, and an empty series only when the
\* primary and every alternate failed.
C10_HistoryFallsBack ==
    \A h \in clientOut.history :
        ~ venueHistory["deribit"].ok => h = FirstAlternateSeries(venueHistory)
(***************************************************************************)
(* Claims about the ledger, under SpecLedger                               *)
(***************************************************************************)
Computes == {"compute_portfolio_greeks", "compute_pnl_attribution"}
Adds == {"add_spot", "add_perp", "add_option"}

\* C5: the ledger is append-only: every step keeps every leg at its position with all
\* its fields, and compute_portfolio_greeks and compute_pnl_attribution change neither
\* the number of legs nor any leg.
C5_LedgerAppendOnly ==
    [][/\ Len(positions') >= Len(positions)
       /\ \A i \in 1..Len(positions) : positions'[i] = positions[i]
       /\ (lastCall' # lastCall /\ lastCall'.op \in Computes) => positions' = positions]_vars

\* both compute operations ran over a ledger of three legs of the three types
C5_Witness ==
    /\ lastCall.op = "compute_pnl_attribution"
    /\ \E p \in lastCall.pnl : ~ p.raised /\ Len(p.legs) = 3
    /\ {positions[i].type : i \in 1..Len(positions)} = {"spot", "perp", "option"}

\* C6: every leg has size >= 0 and side in {+1, -1}, and side * size is the signed size
\* passed to the add operation; a zero size is stored with side +1.
C6_SizeNonNegativeSideSigned ==
    /\ \A i \in 1..Len(positions) :
          positions[i].size >= 0 /\ positions[i].side \in {1, -1}
    /\ (lastCall.op \in Adds /\ ~ lastCall.raised) =>
          /\ positions # <<>>
          /\ positions[Len(positions)].side * positions[Len(positions)].size = lastCall.size
          /\ lastCall.size = 0 => positions[Len(positions)].side = 1

\* a spot leg of size zero was appended after a short option leg
C6_Witness ==
    /\ lastCall.op = "add_spot" /\ lastCall.size = 0
    /\ Len(positions) >= 2
    /\ positions[Len(positions) - 1].type = "option"
    /\ positions[Len(positions) - 1].side = -1

\* seq without its elements i and i + 1 (n is the length of seq)
WithoutPair(seq, n, i) == [k \in 1..(n - 2) |-> IF k < i THEN seq[k] ELSE seq[k + 2]]

Signed(pos) == pos.side * pos.size

\* legs i and i + 1 are a spot leg and the offsetting spot leg of the same asset
OffsettingSpotPair(i) ==
    /\ positions[i].type = "spot" /\ positions[i + 1].type = "spot"
    /\ positions[i].instrument = positions[i + 1].instrument
    /\ Signed(positions[i]) = - Signed(positions[i + 1])

\* C7: appending a spot leg of signed size q and then a spot leg of signed size -q for
\* the same asset changes none of delta, gamma, theta, vega returned by
\* compute_portfolio_greeks() relative to the ledger without the two legs.
C7_OffsettingSpotLegsCancel ==
    lastCall.op = "compute_portfolio_greeks" =>
        \A i \in 1..(Len(positions) - 1) :
            OffsettingSpotPair(i) =>
                lastCall.greeks =
                    {compute_portfolio_greeks(
                         WithoutPair(positions, Len(positions), i),
                         WithoutPair(lastCall.markets, Len(positions), i))}

\* the Greeks were computed over an option leg followed by spot legs of +1 and -1
C7_Witness ==
    /\ lastCall.op = "compute_portfolio_greeks"
    /\ \E g \in lastCall.greeks : ~ g.raised /\ g.delta # 0
    /\ Len(positions) = 3
    /\ positions[1].type = "option"
    /\ OffsettingSpotPair(2) /\ Signed(positions[2]) = 1
(***************************************************************************)
(* Claims about the command handlers, under SpecBot                        *)
(***************************************************************************)
\* C4: a hedge request that fails (venue error, missing instrument, parameter or domain
\* error) leaves the ledger exactly as it was before the request: for every auto_hedge
\* strategy an error outcome implies that the request added no leg.
C4_FailedHedgeLeavesLedger ==
    (reply.handler = "auto_hedge" /\ reply.outcome = "param_error") =>
        Len(positions) = reply.legs_before

(***************************************************************************)
(* Claims about the price-series methods, under SpecSeries                 *)
(***************************************************************************)
SameRatio(a, b) == a.kind = b.kind /\ (a.kind = "value" => a.num * b.den = b.num * a.den)

\* C12: perp_hedge_ratio(spot_series, perp_series) equals the spot size times
\* beta(perp_series, spot_series), the beta whose benchmark is the perp series and
\* whose asset is the spot series.
C12_HedgeRatioUsesPerpBenchmark ==
    seriesCall.op = "perp_hedge_ratio" =>
        SameRatio(seriesCall.out,
                  TimesSpot(rc, beta(rc, seriesCall.args[2], seriesCall.args[1])))

SetMax(S) == CHOOSE m \in S : \A x \in S : x <= m

NonDecreasing(seq) == \A i \in 1..(Len(seq) - 1) : seq[i] <= seq[i + 1]

\* C13: for every non-empty series s, max_drawdown(s) is the largest, over i, of the
\* running maximum up to i minus s[i]; it is never negative, it is 0 for a
\* non-decreasing series, and it is 8 for [0,10,5,15,7,20,12].
C13_MaxDrawdown ==
    (seriesCall.op = "max_drawdown" /\ seriesCall.args[1] # <<>>) =>
        LET s == seriesCall.args[1]
        IN  /\ seriesCall.out.kind = "value"
            /\ seriesCall.out.val =
                   SetMax({SetMax({s[j] : j \in 1..i}) - s[i] : i \in 1..Len(s)})
            /\ seriesCall.out.val >= 0
            /\ NonDecreasing(s) => seriesCall.out.val = 0
            /\ s = PnlExample => seriesCall.out.val = 8

\* max_drawdown was called on the example series, whose deepest fall (15 to 7) is not
\* the last one (20 to 12 is also 8) and on a series that falls and recovers
C13_Witness ==
    /\ seriesCall.op = "max_drawdown"
    /\ seriesCall.args[1] = PnlExample
    /\ seriesCall.out = SeriesValue("none", 8)

\* C14: var(prices) is a value >= 0 for every price series of at least two points:
\* with (near-)zero standard deviation of the log-returns the empirical path is taken,
\* otherwise the parametric path, and either result is non-negative.
C14_VarNonNegative ==
    (seriesCall.op = "var" /\ Len(seriesCall.args[1]) >= 2) =>
        /\ seriesCall.out.kind = "value"
        /\ seriesCall.out.val >= 0

\* C15: correlation_matrix succeeds only when at least two series are supplied and
\* every supplied series has at least 2 points, the matrix then has one row and one
\* column per supplied series, and in every other case the call fails.
C15_CorrelationNeedsAllSeries ==
    seriesCall.op = "correlation_matrix" =>
        LET price_dict == seriesCall.args[1]
            enough == /\ Len(price_dict) >= 2
                      /\ \A i \in 1..Len(price_dict) : Len(price_dict[i]) >= 2
        IN  /\ seriesCall.out.kind = "value" =>
                  /\ enough
                  /\ seriesCall.out.rows = Len(price_dict)
                  /\ seriesCall.out.cols = Len(price_dict)
            /\ ~enough => seriesCall.out.kind = "error"

(***************************************************************************)
(* Claims about the strategies and their helpers, under SpecStrategy       *)
(***************************************************************************)
\* C11: when the option-price query fails inside protective_put, covered_call or
\* collar, the failure reaches the caller as an error and no hedge-result record is
\* produced from a substituted price.
C11_OptionPriceFailureSurfaces ==
    (/\ strategyCall.op \in {"protective_put", "covered_call", "collar"}
     /\ ~strategyCall.args.tick["deribit"].ok)
        => strategyCall.out.raised

\* C16: hedge_qty() returns a whole number n with n >= spot_qty / put_delta and
\* n - 1 < spot_qty / put_delta whenever spot_qty > 0 and 0 < put_delta <= 1, and it
\* fails instead of returning a quantity when put_delta is zero.
C16_HedgeQtyCeiling ==
    strategyCall.op = "hedge_qty" =>
        LET hedger == strategyCall.args
            d == put_delta(hedger)
            out == strategyCall.out
        IN  /\ (~d.err /\ d.val = 0) => out.err
            /\ (~d.err /\ hedger.spot_qty > 0 /\ d.val > 0 /\ d.val <= 1000000) =>
                  /\ ~out.err
                  /\ out.val % QtyUnit = 0
                  /\ out.val * d.val >= hedger.spot_qty * 1000000
                  /\ (out.val - QtyUnit) * d.val < hedger.spot_qty * 1000000

\* hedge_qty was called with 1.3 units and a put delta strictly between 0 and 1 that
\* does not divide it: the result is strictly above the quotient
C16_Witness ==
    /\ strategyCall.op = "hedge_qty"
    /\ strategyCall.args.spot_qty = 13
    /\ ~strategyCall.out.err
    /\ put_delta(strategyCall.args).val \in 1..999999
    /\ strategyCall.out.val * put_delta(strategyCall.args).val
           > strategyCall.args.spot_qty * 1000000

C18_CoveredCallCeiling ==
    (strategyCall.op = "covered_call" /\ ~strategyCall.out.raised) =>
        LET a == strategyCall.args
            price == get_ticker(a.tick)
            res == strategyCall.out.res
        IN  /\ res.size % QtyUnit = 0
            /\ -res.size >= a.spot_qty /\ -res.size - QtyUnit < a.spot_qty
            /\ res.cost = res.size * price
            /\ (a.spot_qty > 0 /\ price > 0) => (res.size < 0 /\ res.cost < 0)
            /\ a.spot_qty = 13 => res.size = -2 * QtyUnit

\* covered_call returned for 1.3 units while the option had a positive price
C18_Witness ==
    /\ strategyCall.op = "covered_call"
    /\ ~strategyCall.out.raised
    /\ strategyCall.args.spot_qty = 13
    /\ get_ticker(strategyCall.args.tick) > 0
    /\ strategyCall.out.res.size = -20
    /\ strategyCall.out.res.cost < 0

\* C19: collar returns a record whose put and call entries are the records
\* protective_put and covered_call return for the same inputs and whose cost is
\* put.cost + call.cost; if either child fails, collar fails and returns no record.
C19_CollarNestsChildren ==
    strategyCall.op = "collar" =>
        LET a == strategyCall.args
            put == hedge_protective_put("BTC", a.spot_qty, a.put_strike, a.days, a.vol,
                                        a.client, a.spot[1], a.catalog[1], a.tick, now)
            call == covered_call("BTC", a.spot_qty, a.call_strike, a.days, a.vol,
                                 a.client, a.spot[2], a.catalog[2], a.tick, now)
        IN  IF put.raised \/ call.raised THEN strategyCall.out.raised
            ELSE /\ ~strategyCall.out.raised
                 /\ strategyCall.out.res.put = put.res
                 /\ strategyCall.out.res.call = call.res
                 /\ strategyCall.out.res.cost = put.res.cost + call.res.cost

\* collar returned a record both of whose legs have a cost
C19_Witness ==
    /\ strategyCall.op = "collar"
    /\ ~strategyCall.out.raised
    /\ strategyCall.out.res.put.cost > 0
    /\ strategyCall.out.res.call.cost < 0
    /\ strategyCall.out.res.cost = strategyCall.out.res.put.cost + strategyCall.out.res.call.cost

\* the instruments of a catalog answer that have the kind and the strike asked for
Matching(a) ==
    IF a.catalog.ok
    THEN {a.catalog.result[i] : i \in {j \in 1..Len(a.catalog.result) :
              /\ a.catalog.result[j].option_type = a.option_type
              /\ a.catalog.result[j].strike = a.strike}}
    ELSE {}

\* C20: find_option_instrument returns an instrument of the catalog of the requested
\* kind and strike whose |expiry - (now + days)| is minimal among all such candidates;
\* when there is none, also because the catalog query failed, it raises.
C20_NearestExpiryOrError ==
    strategyCall.op = "find_option_instrument" =>
        LET a == strategyCall.args
            out == strategyCall.out
        IN  IF Matching(a) = {} THEN out.raised
            ELSE /\ ~out.raised
                 /\ \E inst \in Matching(a) :
                       /\ inst.instrument_name = out.instrument_name
                       /\ \A c \in Matching(a) :
                             Abs(inst.expiration_timestamp - (now + a.days))
                                 <= Abs(c.expiration_timestamp - (now + a.days))

\* the nearest put was found although a farther one comes first in the catalog
C20_Witness ==
    /\ strategyCall.op = "find_option_instrument"
    /\ strategyCall.args.catalog = FullCatalog
    /\ strategyCall.args.option_type = "put" /\ strategyCall.args.days = DaysPerYear
    /\ ~strategyCall.out.raised
    /\ strategyCall.out.instrument_name = PutNear.instrument_name
(***************************************************************************)
(* Claims about GreeksCalculator, under SpecStrategy                       *)
(***************************************************************************)
\* C21: every Greeks function (delta, gamma, theta, vega) raises an error and
\* returns no number whenever T <= 0, or sigma <= 0, or S <= 0, or K <= 0; a
\* negative sigma with the other inputs valid, and a negative S together with a
\* negative K, are among these cases.
C21_GreeksRejectInvalidInputs ==
    strategyCall.op \in GreekNames =>
        LET a == strategyCall.args
        IN  (a.days <= 0 \/ a.sigma <= 0 \/ a.S <= 0 \/ a.K <= 0) => strategyCall.out.err

(***************************************************************************)
(* Claims about the option legs and the aggregates, under SpecLedger       *)
(***************************************************************************)
\* C22: add_option either resolves the instrument and appends exactly one option
\* leg whose time_to_expiry is days / 365, or, when the resolution fails, raises
\* and leaves the ledger as it was.
C22_AddOptionAppendsOrRaises ==
    [][lastCall'.op = "add_option" =>
          IF lastCall'.raised THEN positions' = positions
          ELSE /\ Len(positions') = Len(positions) + 1
               /\ SubSeq(positions', 1, Len(positions)) = positions
               /\ LET leg == positions'[Len(positions')]
                  IN  /\ leg.type = "option"
                      /\ \E inst \in {PutNear, PutFar, CallNear, CallHigh} :
                             /\ inst.instrument_name = leg.instrument
                             /\ inst.option_type = leg.option_type
                             /\ inst.strike = leg.strike
                      /\ leg.time_to_expiry.num * DaysPerYear
                             = lastCall'.days * leg.time_to_expiry.den]_vars

\* a failed add_option on a ledger that holds legs, and a successful one
C22_Witness ==
    /\ lastCall.op = "add_option"
    /\ lastCall.raised
    /\ Len(positions) >= 2
    /\ \E i \in 1..Len(positions) : positions[i].type = "option"

\* what one leg adds to the total of one Greek when the underlying trades at S
Contribution(pos, name, S) ==
    IF pos.type \in {"spot", "perp"}
    THEN IF name = "delta" THEN pos.side * pos.size * 1000000 ELSE 0
    ELSE pos.side * pos.size
             * GreeksCalculator(name, S, pos.strike, pos.time_to_expiry, 0,
                                pos.volatility, pos.option_type).val

RECURSIVE SumContributions(_, _, _, _)
SumContributions(legs, name, S, i) ==
    IF i > Len(legs) THEN 0
    ELSE Contribution(legs[i], name, S) + SumContributions(legs, name, S, i + 1)

GreekTotal(totals, name) ==
    CASE name = "delta" -> totals.delta
      [] name = "gamma" -> totals.gamma
      [] name = "theta" -> totals.theta
      [] name = "vega" -> totals.vega

\* C25: compute_portfolio_greeks() returns per-Greek sums over the ledger: a spot
\* or perp leg contributes side * size to delta only, an option leg contributes
\* side * size * greek(S_now, stored strike, stored time_to_expiry, stored
\* volatility); the stored time_to_expiry never changes, so two calls that see the
\* same underlying price return the same totals however much time passed between.
C25_GreeksSumStoredTerms ==
    [][lastCall'.op = "compute_portfolio_greeks" =>
          \A totals \in lastCall'.greeks :
              /\ ~totals.raised =>
                     LET S == IF positions = <<>> THEN 0
                              ELSE get_spot_price(lastCall'.markets[1]).price
                     IN  \A name \in GreekNames :
                             GreekTotal(totals, name) = SumContributions(positions, name, S, 1)
              /\ (lastCall.op = "compute_portfolio_greeks"
                     /\ lastCall.markets = lastCall'.markets)
                    => lastCall'.greeks = lastCall.greeks]_vars

\* totals of a ledger with an option leg, computed after the clock moved on
C25_Witness ==
    /\ lastCall.op = "compute_portfolio_greeks"
    /\ lastCall.at >= DaysPerYear
    /\ \E i \in 1..Len(positions) :
           positions[i].type = "option" /\ positions[i].timestamp < lastCall.at
    /\ \E j \in 1..Len(positions) : positions[j].type = "perp"
    /\ \E totals \in lastCall.greeks : ~totals.raised /\ totals.gamma # 0

\* price is what the first venue in priority order with a positive price answered
FirstPositive(answers, price) ==
    \E k \in 1..Len(exchange_priority) :
        /\ Yields(answers, exchange_priority[k])
        /\ \A j \in 1..(k - 1) : ~Yields(answers, exchange_priority[j])
        /\ price = answers[exchange_priority[k]].price

RECURSIVE SumPnl(_, _)
SumPnl(entries, i) ==
    IF i > Len(entries) THEN 0 ELSE entries[i].pnl + SumPnl(entries, i + 1)

\* C26: compute_pnl_attribution() returns one breakdown entry per leg, in ledger
\* order, with pnl = side * size * (current - entry_price), where current is the
\* spot price for a spot leg, the perpetual price for a perp leg and the
\* instrument's last price for an option leg; total_pnl is the sum of the entries.
C26_PnlPerLegAndTotal ==
    lastCall.op = "compute_pnl_attribution" =>
        \A r \in lastCall.pnl :
            ~r.raised =>
                /\ Len(r.legs) = Len(positions)
                /\ r.total_pnl = SumPnl(r.legs, 1)
                /\ \A i \in 1..Len(positions) :
                       LET pos == positions[i]
                           e == r.legs[i]
                           answers == lastCall.markets[i]
                       IN  /\ e.instrument = pos.instrument
                           /\ e.entry = pos.entry_price
                           /\ e.pnl = pos.side * pos.size * (e.current - pos.entry_price)
                           /\ pos.type \in {"spot", "perp"} => FirstPositive(answers, e.current)
                           /\ (pos.type = "option" /\ answers["deribit"].ok)
                                  => e.current = answers["deribit"].price

\* an attribution over a spot leg and an option leg whose prices moved
C26_Witness ==
    /\ lastCall.op = "compute_pnl_attribution"
    /\ \E r \in lastCall.pnl :
           /\ ~r.raised
           /\ r.total_pnl # 0
           /\ \E i \in 1..Len(positions), j \in 1..Len(positions) :
                  /\ positions[i].type = "option" /\ r.legs[i].pnl # 0
                  /\ lastCall.markets[i]["deribit"].ok
                  /\ positions[j].type = "spot" /\ r.legs[j].pnl # 0

(***************************************************************************)
(* Claims about collar and delta_neutral, under SpecStrategy               *)
(***************************************************************************)
\* C27: in every record collar returns, the put leg and the call leg have the same
\* absolute size, |put.size| = |call.size|, for every spot_qty and every put delta.
C27_CollarLegsEqualQuantities ==
    (strategyCall.op = "collar" /\ ~strategyCall.out.raised) =>
        Abs(strategyCall.out.res.put.size) = Abs(strategyCall.out.res.call.size)

\* C28: the size and the cost delta_neutral returns do not depend on its threshold
\* argument: a non-zero hedge is recommended whenever spot + perp is not zero, also
\* when needs_hedge() is false for the same position and threshold.
C28_DeltaNeutralIgnoresThreshold ==
    strategyCall.op = "delta_neutral" =>
        LET a == strategyCall.args
        IN  /\ \A threshold \in BandThresholds :
                   delta_neutral("BTC", a.spot_qty, a.perp_qty, threshold, a.client,
                                 a.perp, now) = strategyCall.out
            /\ (~strategyCall.out.raised /\ a.spot_qty + a.perp_qty # 0)
                   => strategyCall.out.res.size # 0

\* a hedge recommended for a position that is within its band
C28_Witness ==
    /\ strategyCall.op = "delta_neutral"
    /\ ~strategyCall.out.raised
    /\ strategyCall.out.res.size # 0
    /\ strategyCall.out.res.cost # 0
    /\ ~needs_hedge(RiskCalculator(strategyCall.args.spot_qty, strategyCall.args.perp_qty,
                                    strategyCall.args.threshold))

(***************************************************************************)
(* Claims about the command handlers, under SpecCommands                   *)
(***************************************************************************)
\* the words a command line must have after the command, from the usage texts
Signature(handler, args) ==
    IF handler = "monitor_risk" THEN <<"str", "float", "float", "float">>
    ELSE IF handler = "risk_report" THEN <<"str", "float", "float", "int", "float">>
    ELSE IF handler = "hedge_now" THEN <<"str", "float">>
    ELSE IF args = <<>> THEN <<"str">>
    ELSE IF args[1].text = "delta_neutral" THEN <<"str", "str", "float", "float">>
    ELSE IF args[1].text \in {"protective_put", "covered_call"}
    THEN <<"str", "str", "float", "float", "int", "float">>
    ELSE IF args[1].text = "collar"
    THEN <<"str", "str", "float", "float", "float", "int", "float">>
    ELSE <<>>

\* a wrong argument count, or a word that cannot be cast to its type
Malformed(handler, args) ==
    \/ Len(args) # Len(Signature(handler, args))
    \/ \E i \in 1..Len(args) :
           \/ Signature(handler, args)[i] = "float" /\ args[i].float = {}
           \/ Signature(handler, args)[i] = "int" /\ args[i].int = {}

ArgumentCommands == {"auto_hedge", "monitor_risk", "risk_report", "hedge_now"}
ParameterReports == {"usage", "param_error", "not_numbers", "unknown_strategy"}

\* C23: in every command that takes user arguments and then queries a venue
\* (auto_hedge, monitor_risk, risk_report, hedge_now), a wrong argument count or a
\* value that cannot be cast is reported before any network call is issued and
\* before any ledger, portfolio or hedge-log state is changed.
C23_ParameterErrorsComeFirst ==
    [][(reply'.handler \in ArgumentCommands /\ Malformed(reply'.handler, reply'.args)) =>
          /\ reply'.outcome \in ParameterReports
          /\ ~reply'.queried
          /\ UNCHANGED <<positions, portfolio, hedge_log>>]_vars

\* C29: once monitor_risk has set the tracked asset, spot and perp, pressing the
\* 'Hedge Now' button, and likewise /hedge_now with a valid asset and size,
\* completes without error, appends exactly one delta_neutral record to the asset's
\* hedge log and exactly one perp leg to the ledger, and for the button leaves the
\* tracked quantities with spot + perp = 0.
C29_HedgeNowCompletes ==
    [][(/\ portfolio.asset # {}
        /\ \/ reply'.handler = "button_handler" /\ reply'.args = <<"hedge_now">>
           \/ reply'.handler = "hedge_now" /\ ~Malformed("hedge_now", reply'.args))
       => /\ reply'.outcome = "ok"
          /\ Len(positions') = Len(positions) + 1
          /\ positions'[Len(positions')].type = "perp"
          /\ \E asset \in Assets :
                 /\ Len(hedge_log'[asset]) = Len(hedge_log[asset]) + 1
                 /\ hedge_log'[asset][Len(hedge_log'[asset])].strategy = "delta_neutral"
          /\ reply'.handler = "button_handler"
                 => Value(portfolio'.spot) + Value(portfolio'.perp) = 0]_vars

ValidExchanges == {"auto", "deribit", "okx", "bybit"}

\* C30: after any sequence of commands (set_exchange, monitor_risk, configure,
\* start_monitoring, auto_hedge, button presses) the preferred exchange of the shared
\* portfolio is one of auto, deribit, okx, bybit; a set_exchange call with any other
\* value leaves it unchanged.
C30_PreferredExchangeStaysValid ==
    [][/\ portfolio.preferred_exchange \in ValidExchanges
       /\ portfolio'.preferred_exchange \in ValidExchanges
       /\ (/\ reply'.handler = "set_exchange"
           /\ reply'.args # <<>>
           /\ Lower(reply'.args[1].text) \notin ValidExchanges)
          => portfolio'.preferred_exchange = portfolio.preferred_exchange]_vars

\* a rejected set_exchange after the exchange was changed and monitor_risk ran
C30_Witness ==
    /\ reply.handler = "set_exchange"
    /\ reply.outcome = "invalid"
    /\ portfolio.preferred_exchange = "okx"
    /\ portfolio.asset # {}
    /\ portfolio.threshold # 10
    /\ positions # <<>>

(***************************************************************************)
(* Claim about aggregates that overlap with appends, under SpecOverlap     *)
(***************************************************************************)
\* C24: an aggregate computation (compute_portfolio_greeks or
\* compute_pnl_attribution) that overlaps with appends to the ledger covers exactly
\* the legs that were in the ledger when it started: a leg appended while it runs is
\* not included in its result and does not make it fail.
C24_AggregateCoversLegsAtStart ==
    (scan.done /\ Len(positions) > Len(scan.start)) =>
        LET markets == [k \in 1..Len(scan.start) |-> scan.market]
        IN  IF scan.op = "compute_portfolio_greeks"
            THEN scan.acc = compute_portfolio_greeks(scan.start, markets)
            ELSE /\ scan.acc.raised = compute_pnl_attribution(scan.start, markets, now).raised
                 /\ Len(scan.acc.legs) = Len(scan.start)
                 /\ scan.acc.total_pnl
                        = compute_pnl_attribution(scan.start, markets, now).total_pnl

====
